---- MODULE Spec2Model ----
(***************************************************************************)
(* Model of the carrier integration service: the OAuth client-credentials  *)
(* token cache (OAuthService), the error transformation of the HTTP        *)
(* client (HttpClient) and the token phase of UPSCarrier.rate().           *)
(*                                                                         *)
(* JavaScript is single threaded: every action below is one run-to-        *)
(* completion section of a handler, from one await to the next.            *)
(***************************************************************************)
EXTENDS Integers, Sequences, FiniteSets, TLC

\* ---------------------------------------------------------------------------
\* Bounds of the model
\* ---------------------------------------------------------------------------
\* Invocations of getToken()/forceRefresh() and token requests sent.
MaxCalls == 2
MaxRequests == 2

\* The rated shipments of one carrier answer.
MaxShipments == 3

\* The implementations of one carrier name that may be offered to a registry.
MaxImplementations == 2

\* The instants (milliseconds) at which the clock is read.
Instants == {0, 3300000}

\* expires_in values (seconds) the authorization server may reply with.
ExpiresInChoices == {300, 3600}

\* ---------------------------------------------------------------------------
\* JavaScript values
\* ---------------------------------------------------------------------------
\* Number.NaN and undefined, kept apart from every number the model uses.
NaN == 0 - 1
Undefined == 0 - 2

\* a * b on JavaScript numbers; undefined coerces to NaN, NaN is absorbing.
JsTimes(a, b) ==
    IF a = NaN \/ b = NaN \/ a = Undefined \/ b = Undefined THEN NaN ELSE a * b

\* a + b on JavaScript numbers.
JsPlus(a, b) ==
    IF a = NaN \/ b = NaN \/ a = Undefined \/ b = Undefined THEN NaN ELSE a + b

\* a > b on JavaScript numbers: every comparison with NaN is false.
JsGreater(a, b) ==
    a # NaN /\ b # NaN /\ a # Undefined /\ b # Undefined /\ a > b

\* obj[f] of a numeric property, undefined when the property is missing.
Prop(obj, f) == IF f \in DOMAIN obj THEN obj[f] ELSE Undefined

\* The property is present.
Has(obj, f) == f \in DOMAIN obj

\* ---------------------------------------------------------------------------
\* Error taxonomy (src/errors/index.ts).  A message is a sequence of text
\* fragments, a template string is their concatenation.  Every member
\* extends Error (isError) and none is an axios error.
\* ---------------------------------------------------------------------------
AuthenticationError(message) ==
    [name |-> "AuthenticationError", code |-> "AUTH_ERROR", message |-> message,
     isError |-> TRUE]

NetworkError(message, isTimeout) ==
    [name |-> "NetworkError", code |-> "NETWORK_ERROR", message |-> message,
     isTimeout |-> isTimeout, isError |-> TRUE]

RateLimitError(message, retryAfterSeconds) ==
    [name |-> "RateLimitError", code |-> "RATE_LIMIT_ERROR", message |-> message,
     retryAfterSeconds |-> retryAfterSeconds, isError |-> TRUE]

CarrierApiError(message, statusCode, responseBody) ==
    [name |-> "CarrierApiError", code |-> "CARRIER_API_ERROR", message |-> message,
     statusCode |-> statusCode, responseBody |-> responseBody, isError |-> TRUE]

NotImplementedError(operation) ==
    [name |-> "NotImplementedError", code |-> "NOT_IMPLEMENTED",
     message |-> <<"Operation '", operation, "' is not implemented">>, isError |-> TRUE]

isRetryableErrorAbove500(error) ==
    IF error.name = "NetworkError" THEN TRUE
    ELSE IF error.name = "RateLimitError" THEN TRUE
    ELSE IF error.name = "CarrierApiError" /\ error.statusCode # Undefined
         THEN error.statusCode > 500 /\ error.statusCode < 600
    ELSE FALSE

isRetryableError(error) ==
    IF error.name = "NetworkError" THEN TRUE
    ELSE IF error.name = "RateLimitError" THEN TRUE
    ELSE IF error.name = "CarrierApiError" /\ error.statusCode # Undefined
         THEN error.statusCode >= 500 /\ error.statusCode < 600
    ELSE FALSE

\* ---------------------------------------------------------------------------
\* Configuration
\* ---------------------------------------------------------------------------
\* config.refreshBufferSeconds ?? 300
refreshBufferSeconds == 300

\* ---------------------------------------------------------------------------
\* What the transport (axios) hands back for one request.
\*   response  : a 2xx response; body says what response.data holds
\*   axiosError: the rejection axios produces (timeout, no response, non-2xx)
\* ---------------------------------------------------------------------------
TokenBody(expires_in) == [access_token |-> 0, token_type |-> 1, expires_in |-> expires_in]

\* A JSON object that carries neither access_token nor expires_in.
BodyWithoutTokenFields == [error |-> 0]

AxiosError(code, hasResponse, status) ==
    [isAxiosError |-> TRUE, isError |-> TRUE, code |-> code,
     hasResponse |-> hasResponse, status |-> status,
     message |-> <<"axios: ", code>>]

\* A timeout, a rejected credential, a refused grant.
TokenFailures ==
    { AxiosError("ECONNABORTED", FALSE, Undefined),
      AxiosError("ERR_BAD_REQUEST", TRUE, 401),
      AxiosError("ERR_BAD_REQUEST", TRUE, 400) }

TokenReplies ==
    { [ok |-> TRUE, hasData |-> TRUE, data |-> TokenBody(e)] : e \in ExpiresInChoices }
    \cup { [ok |-> TRUE, hasData |-> TRUE, data |-> BodyWithoutTokenFields] }
    \cup { [ok |-> FALSE, error |-> e] : e \in TokenFailures }

\* The replies the liveness specification draws from: one success, one timeout.
LiveReplies ==
    { [ok |-> TRUE, hasData |-> TRUE, data |-> TokenBody(3600)],
      [ok |-> FALSE, error |-> AxiosError("ECONNABORTED", FALSE, Undefined)] }

\* ---------------------------------------------------------------------------
\* OAuthService
\* ---------------------------------------------------------------------------
VARIABLES
    now,            \* Date.now()
    cachedToken,    \* OAuthService.cachedToken
    refreshPromise, \* OAuthService.refreshPromise: 0 is null, else a request
    requests,       \* the promises refreshToken() returned, in order of issue
    calls,          \* the getToken()/forceRefresh() invocations, in order
    returned,       \* what the invocation that returned in the last step returned
    cleared,        \* the token objects that were cached at a clearCache()
    idleClear,      \* clearCache() ran with nothing in flight, no call since
    carriers        \* CarrierRegistry.carriers: the entries of the Map, in
                    \* order of insertion

vars == <<now, cachedToken, refreshPromise, requests, calls, returned, cleared,
          idleClear, carriers>>

NullToken == [isNull |-> TRUE]

NoResult == [kind |-> "none"]
TokenResult(token) == [kind |-> "token", token |-> token]
ErrorResult(error) == [kind |-> "error", error |-> error]

isTokenValidAtThreshold(token, t) ==
    IF token = NullToken THEN FALSE
    ELSE LET bufferMs == refreshBufferSeconds * 1000
             expiryThreshold == t + bufferMs
         IN  token.expiresAt = expiryThreshold \/ JsGreater(token.expiresAt, expiryThreshold)

isTokenValid(token, t) ==
    IF token = NullToken THEN FALSE
    ELSE LET bufferMs == refreshBufferSeconds * 1000
             expiryThreshold == t + bufferMs
         IN  JsGreater(token.expiresAt, expiryThreshold)

\* The OAuthToken object refreshToken() builds for request r at time t.  The
\* server mints one access token per request; `object` is the identity of
\* the JavaScript object.
parseTokenResponse(response, r, t) ==
    LET expiresAt == JsPlus(t, JsTimes(Prop(response, "expires_in"), 1000))
    IN  [accessToken |-> IF Has(response, "access_token") THEN r ELSE Undefined,
         expiresAt |-> expiresAt,
         object |-> r]

\* The duck-typed guard of OAuthService: an object with a string message.
oauthIsAxiosError(error) == "message" \in DOMAIN error

handleAuthError(error) ==
    IF Has(error, "name") /\ error.name = "AuthenticationError" THEN error
    ELSE IF oauthIsAxiosError(error) THEN
        LET status == IF Has(error, "hasResponse") /\ error.hasResponse
                      THEN error.status ELSE Undefined
        IN  IF status = 401 THEN AuthenticationError(<<"Invalid client credentials">>)
            ELSE IF status = 400 THEN AuthenticationError(<<"OAuth request failed: ", "Bad request">>)
            ELSE AuthenticationError(<<"OAuth request failed with status ",
                                       IF status = Undefined THEN "unknown" ELSE ToString(status)>>)
    ELSE IF Has(error, "isError") /\ error.isError
         THEN AuthenticationError(<<"OAuth request failed: ">> \o error.message)
    ELSE AuthenticationError(<<"OAuth request failed with unknown error">>)

\* Reading a property of an undefined response.data throws a TypeError.
TypeError == [isError |-> TRUE, name |-> "TypeError",
              message |-> <<"Cannot read properties of undefined">>]

\* The continuation of refreshToken() once the POST has settled: the value
\* the promise settles with and the cachedToken it leaves behind.
refreshTokenSettle(reply, r, t, cache) ==
    IF reply.ok THEN
        IF reply.hasData
        THEN LET token == parseTokenResponse(reply.data, r, t)
             IN  [state |-> "resolved", outcome |-> TokenResult(token), cache |-> token]
        ELSE [state |-> "rejected",
              outcome |-> ErrorResult(handleAuthError(TypeError)), cache |-> cache]
    ELSE [state |-> "rejected",
          outcome |-> ErrorResult(handleAuthError(reply.error)), cache |-> cache]

\* `if (this.refreshPromise)` of getToken().
refreshInProgressIgnored(marker) == FALSE

refreshInProgress(marker) == marker # 0

\* The value clearCache() leaves in cachedToken.
clearedTokenKept(cache) == cache

clearedToken(cache) == NullToken

\* The value the leader's finally block leaves in refreshPromise, given the
\* state its refresh settled in.
markerAfterFinallyOnSuccessOnly(marker, settled) ==
    IF settled = "rejected" THEN marker ELSE 0

markerAfterFinally(marker, settled) == 0

\* ---------------------------------------------------------------------------
\* Texts and numbers of the carrier payload.  A text is a sequence of
\* characters.  A number is NaN or the exact decimal num/den, den a power of
\* ten and the fraction without trailing zeros, so equal numbers are equal
\* records.
\* ---------------------------------------------------------------------------
Digit == {"0", "1", "2", "3", "4", "5", "6", "7", "8", "9"}

DigitValue(ch) == CHOOSE n \in 0..9 : ToString(n) = ch

Num(num, den) == [nan |-> FALSE, num |-> num, den |-> den]

NumNaN == [nan |-> TRUE, num |-> 0, den |-> 1]

Integer(n) == Num(n, 1)

RECURSIVE Pow10(_)
Pow10(k) == IF k = 0 THEN 1 ELSE 10 * Pow10(k - 1)

\* The text without its leading white space.
RECURSIVE TrimStart(_)
TrimStart(text) ==
    IF text # <<>> /\ text[1] = " " THEN TrimStart(Tail(text)) ELSE text

\* The longest prefix of the text made of decimal digits.
RECURSIVE LeadingDigits(_)
LeadingDigits(text) ==
    IF text # <<>> /\ text[1] \in Digit
    THEN <<text[1]>> \o LeadingDigits(Tail(text))
    ELSE <<>>

RECURSIVE DigitsValue(_)
DigitsValue(digits) ==
    IF digits = <<>> THEN 0
    ELSE 10 * DigitsValue(SubSeq(digits, 1, Len(digits) - 1))
         + DigitValue(digits[Len(digits)])

RECURSIVE DropTrailingZeros(_)
DropTrailingZeros(digits) ==
    IF digits # <<>> /\ digits[Len(digits)] = "0"
    THEN DropTrailingZeros(SubSeq(digits, 1, Len(digits) - 1))
    ELSE digits

\* parseFloat(text): white space, a sign, digits, a point and digits; what
\* follows is ignored, and NaN when no digit was read.  The texts of the
\* model carry no exponent and no "Infinity".
parseFloat(text) ==
    LET s       == TrimStart(text)
        signed  == s # <<>> /\ s[1] \in {"-", "+"}
        sign    == IF s # <<>> /\ s[1] = "-" THEN 0 - 1 ELSE 1
        u       == IF signed THEN Tail(s) ELSE s
        ip      == LeadingDigits(u)
        rest    == SubSeq(u, Len(ip) + 1, Len(u))
        fpRead  == IF rest # <<>> /\ rest[1] = "." THEN LeadingDigits(Tail(rest)) ELSE <<>>
        fp      == DropTrailingZeros(fpRead)
    IN  IF ip = <<>> /\ fpRead = <<>> THEN NumNaN
        ELSE Num(sign * (DigitsValue(ip) * Pow10(Len(fp)) + DigitsValue(fp)),
                 Pow10(Len(fp)))

\* parseInt(text, 10): white space, a sign, digits; NaN when no digit was read.
parseInt(text) ==
    LET s       == TrimStart(text)
        signed  == s # <<>> /\ s[1] \in {"-", "+"}
        sign    == IF s # <<>> /\ s[1] = "-" THEN 0 - 1 ELSE 1
        u       == IF signed THEN Tail(s) ELSE s
        ip      == LeadingDigits(u)
    IN  IF ip = <<>> THEN NumNaN ELSE Integer(sign * DigitsValue(ip))

\* a > b on numbers; false when either is NaN.
NumGreater(a, b) == ~a.nan /\ ~b.nan /\ a.num * b.den > b.num * a.den

\* a - b; only its sign and its being NaN are read.
NumMinus(a, b) ==
    IF a.nan \/ b.nan THEN NumNaN
    ELSE [nan |-> FALSE, num |-> a.num * b.den - b.num * a.den, den |-> a.den * b.den]

\* ---------------------------------------------------------------------------
\* UPS response mapper (src/carriers/ups/mapper.ts).  Codes are strings,
\* descriptions are sequences of text fragments, monetary values and day
\* counts are texts.  An optional property is a field the record may lack.
\* ---------------------------------------------------------------------------
\* An optional value of the domain types: undefined or a value.
None == [undefined |-> TRUE]

Some(v) == [undefined |-> FALSE, value |-> v]

CurrencyCode == {"USD", "EUR", "GBP", "CAD"}

parseCurrencyCodeUnchecked(code) == code

parseCurrencyCode(code) == IF code \in CurrencyCode THEN code ELSE "USD"

UPS_SERVICE_CODES ==
    [code \in {"01", "02", "03", "07", "08", "11", "12", "13", "14", "54", "59",
               "65", "82", "83", "84", "85", "86", "96"} |->
        CASE code = "01" -> <<"UPS Next Day Air">>
          [] code = "02" -> <<"UPS 2nd Day Air">>
          [] code = "03" -> <<"UPS Ground">>
          [] code = "07" -> <<"UPS Worldwide Express">>
          [] code = "08" -> <<"UPS Worldwide Expedited">>
          [] code = "11" -> <<"UPS Standard">>
          [] code = "12" -> <<"UPS 3 Day Select">>
          [] code = "13" -> <<"UPS Next Day Air Saver">>
          [] code = "14" -> <<"UPS Next Day Air Early">>
          [] code = "54" -> <<"UPS Worldwide Express Plus">>
          [] code = "59" -> <<"UPS 2nd Day Air A.M.">>
          [] code = "65" -> <<"UPS Saver">>
          [] code = "82" -> <<"UPS Today Standard">>
          [] code = "83" -> <<"UPS Today Dedicated Courier">>
          [] code = "84" -> <<"UPS Today Intercity">>
          [] code = "85" -> <<"UPS Today Express">>
          [] code = "86" -> <<"UPS Today Express Saver">>
          [] code = "96" -> <<"UPS Worldwide Express Freight">>]

getServiceName(code) ==
    IF code \in DOMAIN UPS_SERVICE_CODES THEN UPS_SERVICE_CODES[code]
    ELSE <<"UPS Service ", code>>

\* rated.NegotiatedRateCharges?.TotalCharge ?? rated.TotalCharges
totalChargesStandardFirst(rated) ==
    IF Has(rated, "TotalCharges") THEN rated.TotalCharges
    ELSE rated.NegotiatedRateCharges.TotalCharge

totalCharges(rated) ==
    IF Has(rated, "NegotiatedRateCharges") /\ Has(rated.NegotiatedRateCharges, "TotalCharge")
    THEN rated.NegotiatedRateCharges.TotalCharge
    ELSE rated.TotalCharges

\* rated.BaseServiceCharge ?? rated.TransportationCharges
baseCharges(rated) ==
    IF Has(rated, "BaseServiceCharge") THEN rated.BaseServiceCharge
    ELSE rated.TransportationCharges

\* The filter of the itemized charges.
isSurchargeNonNegative(charge) ==
    ~NumGreater(Integer(0), parseFloat(charge.MonetaryValue))

isSurcharge(charge) == NumGreater(parseFloat(charge.MonetaryValue), Integer(0))

toSurcharge(charge) ==
    [code        |-> charge.Code,
     description |-> IF Has(charge, "Description") THEN charge.Description
                     ELSE <<charge.Code>>,
     amount      |-> [amount   |-> parseFloat(charge.MonetaryValue),
                      currency |-> parseCurrencyCode(charge.CurrencyCode)]]

surcharges(rated) ==
    LET charges == IF Has(rated, "ItemizedCharges") THEN rated.ItemizedCharges ELSE <<>>
        kept    == SelectSeq(charges, isSurcharge)
    IN  [i \in 1..Len(kept) |-> toSurcharge(kept[i])]

transitDaysGuaranteedFirst(rated) ==
    LET summary == IF Has(rated, "TimeInTransit") /\ Has(rated.TimeInTransit, "ServiceSummary")
                   THEN rated.TimeInTransit.ServiceSummary ELSE [none |-> TRUE]
        detailed == IF /\ Has(summary, "EstimatedArrival")
                       /\ Has(summary.EstimatedArrival, "BusinessDaysInTransit")
                       /\ summary.EstimatedArrival.BusinessDaysInTransit # <<>>
                    THEN Some(parseInt(summary.EstimatedArrival.BusinessDaysInTransit))
                    ELSE None
        read     == IF Has(rated, "GuaranteedDelivery")
                    THEN Some(parseInt(rated.GuaranteedDelivery.BusinessDaysInTransit))
                    ELSE detailed
    IN  IF ~read.undefined /\ ~read.value.nan THEN read ELSE None

\* let transitDays: the guaranteed-delivery days, overwritten by the days of
\* the time-in-transit summary when that text is not empty.
transitDays(rated) ==
    LET guaranteed == IF Has(rated, "GuaranteedDelivery")
                      THEN Some(parseInt(rated.GuaranteedDelivery.BusinessDaysInTransit))
                      ELSE None
        summary    == IF Has(rated, "TimeInTransit") /\ Has(rated.TimeInTransit, "ServiceSummary")
                      THEN rated.TimeInTransit.ServiceSummary ELSE [none |-> TRUE]
        read       == IF /\ Has(summary, "EstimatedArrival")
                         /\ Has(summary.EstimatedArrival, "BusinessDaysInTransit")
                         /\ summary.EstimatedArrival.BusinessDaysInTransit # <<>>
                      THEN Some(parseInt(summary.EstimatedArrival.BusinessDaysInTransit))
                      ELSE guaranteed
    IN  IF ~read.undefined /\ ~read.value.nan THEN read ELSE None

estimatedDeliveryDate(rated) ==
    IF /\ Has(rated, "TimeInTransit") /\ Has(rated.TimeInTransit, "ServiceSummary")
       /\ Has(rated.TimeInTransit.ServiceSummary, "EstimatedArrival")
       /\ Has(rated.TimeInTransit.ServiceSummary.EstimatedArrival, "Arrival")
       /\ Has(rated.TimeInTransit.ServiceSummary.EstimatedArrival.Arrival, "Date")
       /\ rated.TimeInTransit.ServiceSummary.EstimatedArrival.Arrival.Date # <<>>
    THEN Some(rated.TimeInTransit.ServiceSummary.EstimatedArrival.Arrival.Date)
    ELSE None

saturdayDelivery(rated) ==
    /\ Has(rated, "TimeInTransit") /\ Has(rated.TimeInTransit, "ServiceSummary")
    /\ Has(rated.TimeInTransit.ServiceSummary, "SaturdayDelivery")
    /\ rated.TimeInTransit.ServiceSummary.SaturdayDelivery \in {"Y", "1"}

fromUPSRatedShipment(rated) ==
    [carrier      |-> "UPS",
     serviceCode  |-> rated.Service.Code,
     serviceName  |-> IF Has(rated.Service, "Description") THEN rated.Service.Description
                      ELSE getServiceName(rated.Service.Code),
     totalPrice   |-> [amount   |-> parseFloat(totalCharges(rated).MonetaryValue),
                       currency |-> parseCurrencyCode(totalCharges(rated).CurrencyCode)],
     basePrice    |-> [amount   |-> parseFloat(baseCharges(rated).MonetaryValue),
                       currency |-> parseCurrencyCode(
                                       IF Has(baseCharges(rated), "CurrencyCode")
                                       THEN baseCharges(rated).CurrencyCode
                                       ELSE totalCharges(rated).CurrencyCode)],
     surcharges   |-> surcharges(rated),
     estimatedDeliveryDate |-> estimatedDeliveryDate(rated),
     transitDays  |-> transitDays(rated),
     saturdayDelivery |-> saturdayDelivery(rated),
     guaranteed   |-> Has(rated, "GuaranteedDelivery")]

\* The comparator of quotes.sort: a.totalPrice.amount - b.totalPrice.amount.
compareFn(a, b) == NumMinus(a.totalPrice.amount, b.totalPrice.amount)

\* What Array.prototype.sort makes of a comparator result: its sign, NaN
\* counting as +0.
SortCompare(a, b) ==
    LET v == compareFn(a, b)
    IN  IF v.nan THEN 0 ELSE IF v.num < 0 THEN 0 - 1 ELSE IF v.num > 0 THEN 1 ELSE 0

\* Where the pivot goes in a sorted array (0-based), by binary search: left
\* of the middle element when it compares below it, right of it otherwise.
RECURSIVE InsertionPoint(_, _, _, _)
InsertionPoint(array, pivot, left, right) ==
    IF left >= right THEN left
    ELSE LET mid == left + ((right - left) \div 2)
         IN  IF SortCompare(pivot, array[mid + 1]) < 0
             THEN InsertionPoint(array, pivot, left, mid)
             ELSE InsertionPoint(array, pivot, mid + 1, right)

\* quotes.sort(compareFn): the stable binary insertion sort engines run on
\* short arrays.  With a comparator that is not a consistent order (a NaN
\* amount) the language leaves the order to the engine; this is the engine's.
RECURSIVE ArraySort(_)
ArraySort(array) ==
    IF Len(array) <= 1 THEN array
    ELSE LET sorted == ArraySort(SubSeq(array, 1, Len(array) - 1))
             pivot  == array[Len(array)]
             at     == InsertionPoint(sorted, pivot, 0, Len(sorted))
         IN  SubSeq(sorted, 1, at) \o <<pivot>> \o SubSeq(sorted, at + 1, Len(sorted))

\* `req_${Date.now()}_${random}`
generateRequestId(t, random) == <<"req_", t, "_", random>>

fromUPSRateResponse(response, originalRequest, t, random) ==
    LET ratedShipments == response.RateResponse.RatedShipment
        quotes == [i \in 1..Len(ratedShipments) |-> fromUPSRatedShipment(ratedShipments[i])]
    IN  [requestId |-> generateRequestId(t, random),
         timestamp |-> t,
         quotes    |-> ArraySort(quotes),
         request   |-> originalRequest]

\* ---------------------------------------------------------------------------
\* Request validation (zod schemas).  A string of a request is a sequence of
\* characters, a number an integer; a request is an object (a record) or
\* null.  The values of the model have the declared types, so a schema
\* fails on a missing required key or on a constraint.
\* ---------------------------------------------------------------------------
Upper == {"A", "B", "C", "D", "E", "F", "G", "H", "I", "J", "K", "L", "M",
          "N", "O", "P", "Q", "R", "S", "T", "U", "V", "W", "X", "Y", "Z"}

Lower == {"a", "b", "c", "d", "e", "f", "g", "h", "i", "j", "k", "l", "m",
          "n", "o", "p", "q", "r", "s", "t", "u", "v", "w", "x", "y", "z"}

JsNull == [isNull |-> TRUE]

IsObject(v) == ~Has(v, "isNull")

\* z.string().min(lo).max(hi)
StringWithin(text, lo, hi) == Len(text) >= lo /\ Len(text) <= hi

\* /^[A-Za-z0-9\s-]+$/
PostalCodePattern(text) ==
    /\ text # <<>>
    /\ \A i \in 1..Len(text) : text[i] \in Upper \cup Lower \cup Digit \cup {" ", "-"}

\* /^[A-Z]{2}$/
CountryCodePattern(text) ==
    Len(text) = 2 /\ \A i \in 1..Len(text) : text[i] \in Upper

\* /^\d{4}-\d{2}-\d{2}$/
ShipDatePattern(text) ==
    /\ Len(text) = 10
    /\ \A i \in {1, 2, 3, 4, 6, 7, 9, 10} : text[i] \in Digit
    /\ text[5] = "-" /\ text[8] = "-"

AddressSchema(address) ==
    /\ IsObject(address)
    /\ Has(address, "addressLine1") /\ StringWithin(address.addressLine1, 1, 100)
    /\ Has(address, "addressLine2") => StringWithin(address.addressLine2, 0, 100)
    /\ Has(address, "addressLine3") => StringWithin(address.addressLine3, 0, 100)
    /\ Has(address, "city") /\ StringWithin(address.city, 1, 50)
    /\ Has(address, "stateProvinceCode") /\ StringWithin(address.stateProvinceCode, 2, 5)
    /\ Has(address, "postalCode") /\ StringWithin(address.postalCode, 3, 15)
    /\ Has(address, "postalCode") /\ PostalCodePattern(address.postalCode)
    /\ Has(address, "countryCode") /\ Len(address.countryCode) = 2
    /\ Has(address, "countryCode") /\ CountryCodePattern(address.countryCode)

PackageWeightSchema(weight) ==
    /\ Has(weight, "value") /\ weight.value > 0 /\ weight.value <= 150
    /\ Has(weight, "unit") /\ weight.unit \in {"LB", "KG"}

PackageDimensionsSchema(dimensions) ==
    /\ Has(dimensions, "length") /\ dimensions.length > 0 /\ dimensions.length <= 108
    /\ Has(dimensions, "width") /\ dimensions.width > 0 /\ dimensions.width <= 108
    /\ Has(dimensions, "height") /\ dimensions.height > 0 /\ dimensions.height <= 108
    /\ Has(dimensions, "unit") /\ dimensions.unit \in {"IN", "CM"}

MonetaryValueSchema(value) ==
    /\ Has(value, "amount") /\ value.amount >= 0
    /\ Has(value, "currency") /\ value.currency \in CurrencyCode

PackageSchema(pkg) ==
    /\ IsObject(pkg)
    /\ Has(pkg, "weight") /\ PackageWeightSchema(pkg.weight)
    /\ Has(pkg, "dimensions") => PackageDimensionsSchema(pkg.dimensions)
    /\ Has(pkg, "packagingType")
    /\ pkg.packagingType \in {"CUSTOM", "LETTER", "TUBE", "PAK", "SMALL_BOX",
                              "MEDIUM_BOX", "LARGE_BOX"}
    /\ Has(pkg, "declaredValue") => MonetaryValueSchema(pkg.declaredValue)
    /\ Has(pkg, "reference") => StringWithin(pkg.reference, 0, 50)

RateRequestOptionsSchema(options) ==
    /\ IsObject(options)
    /\ Has(options, "serviceCodes")
          => \A i \in 1..Len(options.serviceCodes) : Len(options.serviceCodes[i]) >= 1

\* RateRequestSchema.safeParse(request), flattened: fieldErrors are the keys
\* of the request with an issue, formErrors the issues on the request itself.
RateRequestSchema(request) ==
    IF ~IsObject(request)
    THEN [success |-> FALSE, fieldErrors |-> {}, formErrors |-> {"Expected object"}]
    ELSE LET issues ==
                 (IF Has(request, "origin") /\ AddressSchema(request.origin)
                  THEN {} ELSE {"origin"})
                 \cup (IF Has(request, "destination") /\ AddressSchema(request.destination)
                       THEN {} ELSE {"destination"})
                 \cup (IF /\ Has(request, "packages")
                          /\ Len(request.packages) >= 1
                          /\ Len(request.packages) <= 25
                          /\ \A i \in 1..Len(request.packages) : PackageSchema(request.packages[i])
                       THEN {} ELSE {"packages"})
                 \cup (IF Has(request, "shipDate") /\ ~ShipDatePattern(request.shipDate)
                       THEN {"shipDate"} ELSE {})
                 \cup (IF Has(request, "options") /\ ~RateRequestOptionsSchema(request.options)
                       THEN {"options"} ELSE {})
         IN  [success |-> issues = {}, fieldErrors |-> issues, formErrors |-> {}]

ValidationError(message, fieldErrors) ==
    [name |-> "ValidationError", code |-> "VALIDATION_ERROR", message |-> message,
     fieldErrors |-> fieldErrors, isError |-> TRUE]

\* ---------------------------------------------------------------------------
\* UPS request mapper (src/carriers/ups/mapper.ts)
\* ---------------------------------------------------------------------------
\* The decimal digits of a natural number.
RECURSIVE NaturalText(_)
NaturalText(n) ==
    IF n < 10 THEN <<ToString(n)>>
    ELSE NaturalText(n \div 10) \o <<ToString(n % 10)>>

RECURSIVE Zeros(_)
Zeros(k) == IF k = 0 THEN <<>> ELSE <<"0">> \o Zeros(k - 1)

\* n.toFixed(digits) of a non-negative integer n.
toFixed(n, digits) ==
    IF digits = 0 THEN NaturalText(n) ELSE NaturalText(n) \o <<".">> \o Zeros(digits)

toUPSAddress(address) ==
    LET lines == <<address.addressLine1>>
                 \o (IF Has(address, "addressLine2") /\ address.addressLine2 # <<>>
                     THEN <<address.addressLine2>> ELSE <<>>)
                 \o (IF Has(address, "addressLine3") /\ address.addressLine3 # <<>>
                     THEN <<address.addressLine3>> ELSE <<>>)
        upsAddress == [AddressLine       |-> lines,
                       City              |-> address.city,
                       StateProvinceCode |-> address.stateProvinceCode,
                       PostalCode        |-> address.postalCode,
                       CountryCode       |-> address.countryCode]
    IN  IF Has(address, "isResidential") /\ address.isResidential
        THEN upsAddress @@ [ResidentialAddressIndicator |-> "Y"]
        ELSE upsAddress

UPS_PACKAGING_CODES ==
    [type \in {"CUSTOM", "LETTER", "TUBE", "PAK", "SMALL_BOX", "MEDIUM_BOX", "LARGE_BOX"} |->
        CASE type = "CUSTOM" -> "02"
          [] type = "LETTER" -> "01"
          [] type = "TUBE" -> "03"
          [] type = "PAK" -> "04"
          [] type = "SMALL_BOX" -> "2a"
          [] type = "MEDIUM_BOX" -> "2b"
          [] type = "LARGE_BOX" -> "2c"]

toUPSPackage(pkg) ==
    LET upsPackage ==
            [PackagingType |-> [Code |-> UPS_PACKAGING_CODES[pkg.packagingType],
                                Description |-> pkg.packagingType],
             PackageWeight |-> [UnitOfMeasurement |->
                                    [Code |-> IF pkg.weight.unit = "LB" THEN "LBS" ELSE "KGS",
                                     Description |-> IF pkg.weight.unit = "LB"
                                                     THEN "Pounds" ELSE "Kilograms"],
                                Weight |-> toFixed(pkg.weight.value, 1)]]
        dimensions ==
            IF Has(pkg, "dimensions")
            THEN [Dimensions |->
                     [UnitOfMeasurement |->
                          [Code |-> pkg.dimensions.unit,
                           Description |-> IF pkg.dimensions.unit = "IN"
                                           THEN "Inches" ELSE "Centimeters"],
                      Length |-> toFixed(pkg.dimensions.length, 1),
                      Width  |-> toFixed(pkg.dimensions.width, 1),
                      Height |-> toFixed(pkg.dimensions.height, 1)]]
            ELSE <<>>
        \* an object is truthy whatever its amount
        declared ==
            IF Has(pkg, "declaredValue")
            THEN [PackageServiceOptions |->
                     [DeclaredValue |->
                          [CurrencyCode  |-> pkg.declaredValue.currency,
                           MonetaryValue |-> toFixed(pkg.declaredValue.amount, 2)]]]
            ELSE <<>>
    IN  (upsPackage @@ dimensions) @@ declared

\* The options of enrichedRequest: the request's value, else the default.
enrichedOptionsOr(request, config) ==
    LET options == IF Has(request, "options") THEN request.options ELSE <<>>
    IN  [negotiatedRates  |-> IF Has(options, "negotiatedRates") /\ options.negotiatedRates
                              THEN Some(TRUE)
                              ELSE IF Has(config, "useNegotiatedRates")
                                   THEN Some(config.useNegotiatedRates)
                                   ELSE None,
         returnAllServices |-> IF Has(options, "returnAllServices")
                               THEN options.returnAllServices ELSE TRUE]

enrichedOptions(request, config) ==
    LET options == IF Has(request, "options") THEN request.options ELSE <<>>
    IN  [negotiatedRates  |-> IF Has(options, "negotiatedRates")
                              THEN Some(options.negotiatedRates)
                              ELSE IF Has(config, "useNegotiatedRates")
                                   THEN Some(config.useNegotiatedRates)
                                   ELSE None,
         returnAllServices |-> IF Has(options, "returnAllServices")
                               THEN options.returnAllServices ELSE TRUE]

\* toUPSRateRequest(enrichedRequest, accountNumber); t is Date.now().
toUPSRateRequest(request, options, accountNumber, t) ==
    LET shipper == IF accountNumber.undefined \/ accountNumber.value = <<>>
                   THEN [Name |-> "Shipper", Address |-> toUPSAddress(request.origin)]
                   ELSE [Name |-> "Shipper", Address |-> toUPSAddress(request.origin),
                         ShipperNumber |-> accountNumber.value]
        shipment == [Shipper  |-> shipper,
                     ShipTo   |-> [Name |-> "Recipient",
                                   Address |-> toUPSAddress(request.destination)],
                     ShipFrom |-> [Name |-> "Shipper",
                                   Address |-> toUPSAddress(request.origin)],
                     Package  |-> [i \in 1..Len(request.packages) |->
                                      toUPSPackage(request.packages[i])],
                     DeliveryTimeInformation |-> [PackageBillType |-> "03"]]
    IN  [RateRequest |->
            [Request  |-> [SubVersion |-> "2403",
                           RequestOption |-> IF options.returnAllServices
                                             THEN "Shop" ELSE "Rate",
                           TransactionReference |-> [CustomerContext |-> <<"rate-", t>>]],
             Shipment |-> IF ~options.negotiatedRates.undefined /\ options.negotiatedRates.value
                          THEN shipment @@ [ShipmentRatingOptions |->
                                               [NegotiatedRatesIndicator |-> "Y"]]
                          ELSE shipment]]

\* ---------------------------------------------------------------------------
\* HttpClient
\* ---------------------------------------------------------------------------
\* The rejection axios produces for a response with a non-2xx status.
\* headers may carry "retry-after", a text; data is the body, an object that
\* may carry a message.
AxiosResponseError(status, headers, data) ==
    [isAxiosError |-> TRUE, isError |-> TRUE, code |-> "ERR_BAD_RESPONSE",
     hasResponse |-> TRUE, status |-> status, headers |-> headers, data |-> data,
     message |-> <<"Request failed with status code ", ToString(status)>>]

\* axios.isAxiosError: the payload carries isAxiosError === true.
httpIsAxiosError(error) == Has(error, "isAxiosError") /\ error.isAxiosError

\* The header values of the model are strings.
parseRetryAfter(headers) ==
    IF Has(headers, "retry-after")
    THEN LET seconds == parseInt(headers["retry-after"])
         IN  IF seconds.nan THEN None ELSE Some(seconds)
    ELSE None

\* The first message field found in the body, <<>> when there is none.
extractErrorMessage(data) ==
    IF Has(data, "isUndefined") THEN <<>>
    ELSE IF Has(data, "message") THEN data.message
    ELSE IF Has(data, "error") THEN data.error
    ELSE IF Has(data, "error_description") THEN data.error_description
    ELSE IF Has(data, "errorMessage") THEN data.errorMessage
    ELSE IF /\ Has(data, "errors")
            /\ Len(data.errors) > 0
            /\ Has(data.errors[1], "message") THEN data.errors[1].message
    ELSE <<>>

transformErrorStatusOnly(error) ==
    IF ~httpIsAxiosError(error) THEN
        IF Has(error, "isError") /\ error.isError
        THEN NetworkError(<<"Request failed: ">> \o error.message, FALSE)
        ELSE NetworkError(<<"Request failed with unknown error">>, FALSE)
    ELSE IF error.code = "ECONNABORTED" \/ error.code = "ETIMEDOUT"
        THEN NetworkError(<<"Request timed out">>, TRUE)
    ELSE IF ~error.hasResponse
        THEN NetworkError(<<"Network error: ">> \o error.message, FALSE)
    ELSE CarrierApiError(<<"API error with status ", ToString(error.status)>>,
                         error.status, error.data)

transformError(error) ==
    IF ~httpIsAxiosError(error) THEN
        IF Has(error, "isError") /\ error.isError
        THEN NetworkError(<<"Request failed: ">> \o error.message, FALSE)
        ELSE NetworkError(<<"Request failed with unknown error">>, FALSE)
    ELSE IF error.code = "ECONNABORTED" \/ error.code = "ETIMEDOUT"
        THEN NetworkError(<<"Request timed out">>, TRUE)
    ELSE IF ~error.hasResponse
        THEN NetworkError(<<"Network error: ">> \o error.message, FALSE)
    ELSE IF error.status = 401
        THEN AuthenticationError(<<"Authentication failed">>)
    ELSE IF error.status = 429
        THEN RateLimitError(<<"Rate limit exceeded">>, parseRetryAfter(error.headers))
    ELSE LET message == IF extractErrorMessage(error.data) # <<>>
                        THEN extractErrorMessage(error.data)
                        ELSE <<"API error with status ", ToString(error.status)>>
         IN  CarrierApiError(message, error.status, error.data)

interceptorAsksForTokenAnyway(hasProvider, hasAuthorization) == hasProvider

\* The request interceptor asks the token provider unless the request
\* already carries an Authorization header.
interceptorAsksForToken(hasProvider, hasAuthorization) ==
    hasProvider /\ ~hasAuthorization

\* The rate response body the carrier answers with.
UPSRateResponse(code, description, ratedShipments) ==
    [RateResponse |->
        [RatedShipment |-> ratedShipments,
         Response      |-> [ResponseStatus |-> [Code |-> code, Description |-> description]]]]

\* A rated shipment with the required properties only.
UPSRatedShipment(code, total) ==
    [Service               |-> [Code |-> code],
     TransportationCharges |-> [CurrencyCode |-> "USD", MonetaryValue |-> total],
     TotalCharges          |-> [CurrencyCode |-> "USD", MonetaryValue |-> total]]

\* 2xx bodies: rated services, none, an embedded failure, and bodies that
\* are not rate responses (an error envelope, a response without its list).
CarrierBodies ==
    { UPSRateResponse("1", <<"Success">>,
                      << UPSRatedShipment("03", <<"1", "5", ".", "9", "9">>),
                         UPSRatedShipment("01", <<"9", ".", "5", "0">>) >>),
      UPSRateResponse("1", <<"Success">>, <<>>),
      UPSRateResponse("0", <<"Failure">>, <<>>),
      [response |-> [errors |-> <<[code |-> "250003", message |-> <<"Invalid Access License">>]>>]],
      [RateResponse |-> [Response |-> [ResponseStatus |-> [Code |-> "1",
                                                            Description |-> <<"Success">>]]]] }

\* An empty error body: error.response.data is undefined.
NoData == [isUndefined |-> TRUE]

\* A failure that is not an axios error: an Error, and a thrown string.
PlainError == [isError |-> TRUE, name |-> "Error", message |-> <<"Connection refused">>]

ThrownString == [isError |-> FALSE, text |-> <<"string error">>]

\* The Retry-After texts a server sends: seconds, or an HTTP date.
RetryAfterTexts ==
    { <<"3", "0">>, <<"1", "2", "0">>,
      <<"W", "e", "d", ",", " ", "2", "1", " ", "O", "c", "t", " ", "2", "0", "2", "6">> }

\* The failures of the carrier call: timeouts and network failures carry no
\* response; a response with a non-2xx status carries its status, headers
\* and body.
CarrierFailures ==
    { AxiosError("ECONNABORTED", FALSE, Undefined),
      AxiosError("ETIMEDOUT", FALSE, Undefined),
      AxiosError("ERR_NETWORK", FALSE, Undefined),
      PlainError,
      ThrownString,
      AxiosResponseError(401, [date |-> <<"now">>], [code |-> "250002"]),
      AxiosResponseError(429, [date |-> <<"now">>], NoData),
      AxiosResponseError(400, [date |-> <<"now">>], [message |-> <<"Invalid weight">>]),
      AxiosResponseError(404, [date |-> <<"now">>], NoData),
      AxiosResponseError(500, [date |-> <<"now">>], [message |-> <<"Internal error">>]),
      AxiosResponseError(503, [date |-> <<"now">>] @@ ("retry-after" :> <<"3", "0">>),
                         [code |-> "10001"]) }
    \cup { AxiosResponseError(429, [date |-> <<"now">>] @@ ("retry-after" :> text),
                              [code |-> "10429"]) : text \in RetryAfterTexts }

\* What the carrier may answer to the rate call.
CarrierReplies ==
    { [ok |-> TRUE, data |-> body] : body \in CarrierBodies }
    \cup { [ok |-> FALSE, error |-> error] : error \in CarrierFailures }

\* The suffixes Math.random() may give a request id.
RandomSuffixes == {"k3x9q"}

\* What rate() resolves with.
RateResult(response) == [kind |-> "rateResponse", response |-> response]

\* The property reads of fromUPSRatedShipment that throw a TypeError.
fromUPSRatedShipmentThrows(rated) ==
    \/ ~Has(rated, "Service")
    \/ /\ ~Has(rated, "TotalCharges")
       /\ ~(Has(rated, "NegotiatedRateCharges") /\ Has(rated.NegotiatedRateCharges, "TotalCharge"))
    \/ ~Has(rated, "BaseServiceCharge") /\ ~Has(rated, "TransportationCharges")

fromUPSRateResponseThrows(response) ==
    \/ ~Has(response.RateResponse, "RatedShipment")
    \/ \E i \in 1..Len(response.RateResponse.RatedShipment) :
          fromUPSRatedShipmentThrows(response.RateResponse.RatedShipment[i])

\* rate() from the resolved post() on: the body is read as it came (post()
\* takes three parameters, the schema passed as fourth is not applied).
rateAfterPostUnchecked(upsResponse, request, t, random) ==
    IF \/ ~Has(upsResponse, "RateResponse")
       \/ ~Has(upsResponse.RateResponse, "Response")
       \/ ~Has(upsResponse.RateResponse.Response, "ResponseStatus")
    THEN ErrorResult(TypeError)
    ELSE IF fromUPSRateResponseThrows(upsResponse) THEN ErrorResult(TypeError)
    ELSE RateResult(fromUPSRateResponse(upsResponse, request, t, random))

rateAfterPost(upsResponse, request, t, random) ==
    IF \/ ~Has(upsResponse, "RateResponse")
       \/ ~Has(upsResponse.RateResponse, "Response")
       \/ ~Has(upsResponse.RateResponse.Response, "ResponseStatus")
    THEN ErrorResult(TypeError)
    ELSE LET responseStatus == upsResponse.RateResponse.Response.ResponseStatus IN
         IF ~Has(responseStatus, "Code") \/ responseStatus.Code # "1"
         THEN ErrorResult(CarrierApiError(
                  <<"UPS API error: ">> \o (IF Has(responseStatus, "Description")
                                            THEN responseStatus.Description
                                            ELSE <<"undefined">>),
                  Undefined, upsResponse))
         ELSE IF fromUPSRateResponseThrows(upsResponse) THEN ErrorResult(TypeError)
         ELSE RateResult(fromUPSRateResponse(upsResponse, request, t, random))

\* The headers refreshToken() gives its POST: the Basic credentials and the
\* additional headers of the configuration.
tokenRequestHeaders ==
    [ContentType   |-> <<"application/x-www-form-urlencoded">>,
     Authorization |-> <<"Basic ", "clientId:clientSecret">>,
     xMerchantId   |-> <<"merchant">>]

\* The state of a token request once it has passed the request interceptor
\* of the client it is sent through, whose token provider is getToken() of
\* this service.  An interceptor that asks the provider calls getToken()
\* while refreshPromise is the promise of this very request: the request
\* awaits itself and is never sent.
tokenRequestIssued ==
    IF interceptorAsksForToken(TRUE, Has(tokenRequestHeaders, "Authorization"))
    THEN "awaitsItself"
    ELSE "inflight"

\* Request r has settled.
Settled(r) == requests[r].state \in {"resolved", "rejected"}

\* No invocation returned in the last step.
NoReturn == [call |-> 0]

Init ==
    /\ now = 0
    /\ cachedToken = NullToken
    /\ refreshPromise = 0
    /\ requests = <<>>
    /\ calls = <<>>
    /\ returned = NoReturn
    /\ cleared = {}
    /\ idleClear = FALSE
    /\ carriers = <<>>

InFlight == { r \in DOMAIN requests : requests[r].state = "inflight" }

\* The requests whose refresh is under way: the leader that sent the request
\* has not yet run its finally block.
Refreshing == { calls[c].req : c \in { d \in DOMAIN calls : calls[d].pc = "leader" } }

\* A call that has returned keeps no state.
DoneCall == [pc |-> "done"]

\* What the caller of invocation c observes when it returns; pc is the
\* await the invocation returned from.
Return(c, call, result) ==
    [call |-> c, op |-> call.op, pc |-> call.pc, req |-> call.req,
     after |-> call.after, result |-> result]

AfterTokenSendsAnyway(c, call, result) ==
    IF call.op = "rate"
    THEN [call |-> [op |-> "rate", pc |-> "carrier", req |-> call.req,
                    after |-> call.after, args |-> call.args,
                    bearer |-> IF result.kind = "token" THEN result.token.accessToken
                               ELSE Undefined],
          returned |-> NoReturn]
    ELSE [call |-> DoneCall, returned |-> Return(c, call, result)]

\* Invocation c has its token result.  getToken() and forceRefresh() return
\* it.  For rate() the result arrives in the request interceptor of
\* HttpClient.post: a token becomes the bearer of the carrier call, which is
\* sent; an error is rethrown, caught by post() and transformed.
AfterToken(c, call, result) ==
    IF call.op = "rate" THEN
        IF result.kind = "token"
        THEN [call |-> [op |-> "rate", pc |-> "carrier", req |-> call.req,
                        after |-> call.after, args |-> call.args,
                        bearer |-> result.token.accessToken],
              returned |-> NoReturn]
        ELSE [call |-> DoneCall,
              returned |-> Return(c, call, ErrorResult(transformError(result.error)))]
    ELSE [call |-> DoneCall, returned |-> Return(c, call, result)]

\* One invocation of getToken() up to its first await, on the cache value
\* `cache` (forceRefresh() nulls the cache before it calls getToken()).
\* req is the request the call awaits, 0 when it is answered from the cache;
\* after is the set of token objects cleared before the call.
Enter(op, cache, args) ==
    LET c == Len(calls) + 1 IN
    /\ Len(calls) < MaxCalls
    /\ cachedToken' = cache
    /\ idleClear' = FALSE
    /\ IF isTokenValid(cache, now) THEN
            LET a == AfterToken(c, [op |-> op, pc |-> "enter", req |-> 0,
                                    after |-> cleared, args |-> args],
                                TokenResult(cache))
            IN  /\ calls' = Append(calls, a.call)
                /\ returned' = a.returned
                /\ UNCHANGED <<refreshPromise, requests>>
       ELSE IF refreshInProgress(refreshPromise) THEN
            /\ calls' = Append(calls, [op |-> op, pc |-> "follower",
                                       req |-> refreshPromise, after |-> cleared,
                                       args |-> args])
            /\ returned' = NoReturn
            /\ UNCHANGED <<refreshPromise, requests>>
       ELSE
            /\ Len(requests) < MaxRequests
            /\ requests' = Append(requests, [state |-> tokenRequestIssued, outcome |-> NoResult,
                                             reply |-> NoResult, clearedWhile |-> FALSE,
                                             overlapped |-> Refreshing # {}])
            /\ refreshPromise' = Len(requests) + 1
            /\ calls' = Append(calls, [op |-> op, pc |-> "leader",
                                       req |-> Len(requests) + 1, after |-> cleared,
                                       args |-> args])
            /\ returned' = NoReturn
    /\ UNCHANGED <<now, cleared, carriers>>

getToken == Enter("getToken", cachedToken, <<>>)

forceRefresh == Enter("forceRefresh", NullToken, <<>>)

\* Requests a caller may pass to rate().
ValidAddress ==
    [addressLine1      |-> <<"1", " ", "M", "a", "i", "n">>,
     city              |-> <<"A", "l", "b", "a", "n", "y">>,
     stateProvinceCode |-> <<"N", "Y">>,
     postalCode        |-> <<"1", "2", "2", "0", "7">>,
     countryCode       |-> <<"U", "S">>]

ValidPackage ==
    [weight |-> [value |-> 5, unit |-> "LB"], packagingType |-> "CUSTOM"]

ValidRateRequest ==
    [origin |-> ValidAddress, destination |-> ValidAddress, packages |-> <<ValidPackage>>]

InvalidRateRequests ==
    { [ValidRateRequest EXCEPT !.packages = <<>>],
      [ValidRateRequest EXCEPT !.packages = [i \in 1..26 |-> ValidPackage]],
      [ValidRateRequest EXCEPT !.packages = <<[ValidPackage EXCEPT !.weight.value = 151]>>],
      [ValidRateRequest EXCEPT !.origin.countryCode = <<"u", "s">>],
      [origin |-> ValidAddress, packages |-> <<ValidPackage>>],
      ValidRateRequest @@ [shipDate |-> <<"1", "/", "2", "/", "2", "4">>],
      JsNull }

RateRequests ==
    { ValidRateRequest,
      ValidRateRequest @@ [shipDate |-> <<"2", "0", "2", "4", "-", "0", "1", "-", "1", "5">>,
                           options  |-> [negotiatedRates |-> FALSE]] }
    \cup InvalidRateRequests

\* The configuration the carrier was constructed with.
carrierConfig == [accountNumber |-> <<"A", "1", "B", "2", "C", "3">>]

\* UPSCarrier.rate(request) of a carrier constructed with config; carriers
\* share the HttpClient and the OAuthService they are constructed with.
\* An invalid request throws before anything
\* else happens.  For a valid one HttpClient.post() runs the request
\* interceptor, which calls the token provider, i.e. getToken(); the rate
\* call carries no Authorization header of its own.
rateOn(config, request) ==
    LET validationResult == RateRequestSchema(request)
        c == Len(calls) + 1
    IN  IF ~validationResult.success THEN
            /\ Len(calls) < MaxCalls
            /\ calls' = Append(calls, DoneCall)
            /\ returned' = Return(c, [op |-> "rate", pc |-> "validate", req |-> 0,
                                      after |-> cleared, args |-> [request |-> request]],
                                  ErrorResult(ValidationError(<<"Invalid rate request">>,
                                                              validationResult.fieldErrors)))
            /\ UNCHANGED <<now, cachedToken, refreshPromise, requests, cleared,
                           idleClear, carriers>>
        ELSE
            /\ interceptorAsksForToken(TRUE, FALSE)
            /\ Enter("rate", cachedToken,
                     [request    |-> request,
                      config     |-> config,
                      upsRequest |-> toUPSRateRequest(
                                         request, enrichedOptions(request, config),
                                         IF Has(config, "accountNumber")
                                         THEN Some(config.accountNumber) ELSE None,
                                         now)])

\* rate() of the carrier constructed with carrierConfig.
rate(request) == rateOn(carrierConfig, request)

\* track() and createLabel() throw NotImplementedError, whatever they are given.
TrackingNumbers == { <<"1Z999AA10123456784">> }

LabelRequests == { [serviceCode |-> "03"] }

track(trackingNumber) ==
    /\ Len(calls) < MaxCalls
    /\ calls' = Append(calls, DoneCall)
    /\ returned' = Return(Len(calls) + 1,
                          [op |-> "track", pc |-> "start", req |-> 0, after |-> cleared],
                          ErrorResult(NotImplementedError("track")))
    /\ UNCHANGED <<now, cachedToken, refreshPromise, requests, cleared, idleClear, carriers>>

createLabel(request) ==
    /\ Len(calls) < MaxCalls
    /\ calls' = Append(calls, DoneCall)
    /\ returned' = Return(Len(calls) + 1,
                          [op |-> "createLabel", pc |-> "start", req |-> 0, after |-> cleared],
                          ErrorResult(NotImplementedError("createLabel")))
    /\ UNCHANGED <<now, cachedToken, refreshPromise, requests, cleared, idleClear, carriers>>

\* clearCache(); the requests whose refresh is under way are marked as
\* cleared during their refresh.
clearCache ==
    /\ cachedToken' = clearedToken(cachedToken)
    /\ refreshPromise' = 0
    /\ cleared' = IF cachedToken = NullToken THEN cleared
                  ELSE cleared \cup {cachedToken.object}
    /\ idleClear' = (InFlight = {})
    /\ requests' = [r \in DOMAIN requests |->
                       IF r \in Refreshing
                       THEN [requests[r] EXCEPT !.clearedWhile = TRUE]
                       ELSE requests[r]]
    /\ returned' = NoReturn
    /\ UNCHANGED <<now, calls, carriers>>

\* The POST of request r settles with `reply` and refreshToken() runs on.
refreshToken(r, reply) ==
    /\ r \in DOMAIN requests
    /\ requests[r].state = "inflight"
    /\ LET s == refreshTokenSettle(reply, r, now, cachedToken)
       IN  /\ requests' = [requests EXCEPT ![r].state = s.state,
                                           ![r].outcome = s.outcome,
                                           ![r].reply = reply]
           /\ cachedToken' = s.cache
    /\ returned' = NoReturn
    /\ UNCHANGED <<now, refreshPromise, calls, cleared, idleClear, carriers>>

\* The leader's `await this.refreshPromise` resumes; finally clears the marker.
LeaderResume(c) ==
    /\ c \in DOMAIN calls
    /\ calls[c].pc = "leader"
    /\ Settled(calls[c].req)
    /\ LET a == AfterToken(c, calls[c], requests[calls[c].req].outcome)
       IN  /\ calls' = [calls EXCEPT ![c] = a.call]
           /\ returned' = a.returned
    /\ refreshPromise' = markerAfterFinally(refreshPromise, requests[calls[c].req].state)
    /\ UNCHANGED <<now, cachedToken, requests, cleared, idleClear, carriers>>

\* A follower's `return this.refreshPromise` settles.
FollowerResume(c) ==
    /\ c \in DOMAIN calls
    /\ calls[c].pc = "follower"
    /\ Settled(calls[c].req)
    /\ LET a == AfterToken(c, calls[c], requests[calls[c].req].outcome)
       IN  /\ calls' = [calls EXCEPT ![c] = a.call]
           /\ returned' = a.returned
    /\ UNCHANGED <<now, cachedToken, refreshPromise, requests, cleared, idleClear, carriers>>

postSettlesDroppingToken(c, reply, random) ==
    /\ c \in DOMAIN calls
    /\ calls[c].pc = "carrier"
    /\ calls' = [calls EXCEPT ![c] = DoneCall]
    /\ returned' = Return(c, calls[c],
                          IF reply.ok
                          THEN rateAfterPost(reply.data, calls[c].args.request, now, random)
                          ELSE ErrorResult(transformError(reply.error)))
                   @@ [reply |-> reply]
    /\ cachedToken' = IF reply.ok THEN cachedToken ELSE NullToken
    /\ UNCHANGED <<now, refreshPromise, requests, cleared, idleClear, carriers>>

\* The carrier call of rate() invocation c settles with `reply`: post()
\* returns the data, and rate() runs on to its end, or post() throws the
\* transformed error, which rate() lets through.
postSettles(c, reply, random) ==
    /\ c \in DOMAIN calls
    /\ calls[c].pc = "carrier"
    /\ calls' = [calls EXCEPT ![c] = DoneCall]
    /\ returned' = Return(c, calls[c],
                          IF reply.ok
                          THEN rateAfterPost(reply.data, calls[c].args.request, now, random)
                          ELSE ErrorResult(transformError(reply.error)))
                   @@ [reply |-> reply]
    /\ UNCHANGED <<now, cachedToken, refreshPromise, requests, cleared, idleClear, carriers>>

\* Time passes.
Tick(t) ==
    /\ t > now
    /\ now' = t
    /\ returned' = NoReturn
    /\ UNCHANGED <<cachedToken, refreshPromise, requests, calls, cleared, idleClear, carriers>>

Next ==
    \/ getToken
    \/ forceRefresh
    \/ clearCache
    \/ \E r \in 1..MaxRequests : \E reply \in TokenReplies : refreshToken(r, reply)
    \/ \E c \in 1..MaxCalls : LeaderResume(c)
    \/ \E c \in 1..MaxCalls : FollowerResume(c)
    \/ \E t \in Instants : Tick(t)

Spec == Init /\ [][Next]_vars

\* rate() invocations sharing one OAuthService.  The clock stands still here:
\* a token of 300 s is stale as soon as it is cached and one of 3600 s stays
\* fresh, so rate() meets an empty, a stale and a fresh cache.
RateNext ==
    \/ \E request \in RateRequests : rate(request)
    \/ \E trackingNumber \in TrackingNumbers : track(trackingNumber)
    \/ \E request \in LabelRequests : createLabel(request)
    \/ \E r \in 1..MaxRequests : \E reply \in TokenReplies : refreshToken(r, reply)
    \/ \E c \in 1..MaxCalls : LeaderResume(c)
    \/ \E c \in 1..MaxCalls : FollowerResume(c)
    \/ \E c \in 1..MaxCalls : \E reply \in CarrierReplies :
          \E random \in RandomSuffixes : postSettles(c, reply, random)

RateSpec == Init /\ [][RateNext]_vars

\* The charges the rated shipments of the mapping specification carry.
Charge(value) == [CurrencyCode |-> "USD", MonetaryValue |-> value]

ItemizedCharge(code, value) == [Code |-> code, CurrencyCode |-> "USD", MonetaryValue |-> value]

\* The delivery blocks of a rated shipment.
GuaranteedDelivery(days) == [BusinessDaysInTransit |-> days]

TimeInTransit(days, date, saturday) ==
    [ServiceSummary |->
        [EstimatedArrival |-> [Arrival |-> [Date |-> date], BusinessDaysInTransit |-> days],
         SaturdayDelivery |-> saturday]]

\* Rated shipments: standard rates with itemized charges (one with a zero
\* value, one without description); negotiated and base service charges with
\* a negative and an unparseable itemized value; a total equal to another's;
\* a total that is no number.  Their delivery blocks: guaranteed days only;
\* summary and guaranteed days; summary days that are no number; none; an
\* empty summary text; guaranteed days that are no number; negative days.
\* Their currencies: supported ones and one that is not.
ShipmentChoices ==
    { [UPSRatedShipment("03", <<"2", "0", ".", "0", "0">>)
           EXCEPT !.TransportationCharges = Charge(<<"1", "8", ".", "0", "0">>)]
          @@ [ItemizedCharges |->
                  << ItemizedCharge("375", <<"2", ".", "4", "9">>)
                         @@ [Description |-> <<"Fuel Surcharge">>],
                     ItemizedCharge("270", <<"0", ".", "0", "0">>)
                         @@ [Description |-> <<"Residential">>],
                     ItemizedCharge("110", <<"1", ".", "0", "0">>) >>,
              GuaranteedDelivery |-> GuaranteedDelivery(<<"3">>)],
      UPSRatedShipment("01", <<"1", "0", ".", "0", "0">>)
          @@ [NegotiatedRateCharges |-> [TotalCharge |-> Charge(<<"8", ".", "5", "0">>)],
              BaseServiceCharge |-> Charge(<<"7", ".", "0", "0">>),
              ItemizedCharges |->
                  << ItemizedCharge("400", <<"-", "1", ".", "5", "0">>)
                         @@ [Description |-> <<"Discount">>],
                     ItemizedCharge("401", <<"a", "b", "c">>),
                     ItemizedCharge("402", <<"3", ".", "1", "0">>)
                         @@ [Description |-> <<"Delivery Area">>] >>,
              GuaranteedDelivery |-> GuaranteedDelivery(<<"5">>),
              TimeInTransit |-> TimeInTransit(<<"2">>, <<"2", "0", "2", "4", "0", "1", "2", "0">>,
                                              "Y")],
      [UPSRatedShipment("02", <<"8", ".", "5", "0">>)
           EXCEPT !.TotalCharges.CurrencyCode = "JPY",
                  !.TransportationCharges.CurrencyCode = "EUR"]
          @@ [GuaranteedDelivery |-> GuaranteedDelivery(<<"3">>),
              TimeInTransit |-> TimeInTransit(<<"a", "b", "c">>, <<>>, "N")],
      UPSRatedShipment("13", <<"a", "b", "c">>),
      UPSRatedShipment("12", <<"3", "0", ".", "0", "0">>)
          @@ [GuaranteedDelivery |-> GuaranteedDelivery(<<"4">>),
              TimeInTransit |-> TimeInTransit(<<>>, <<>>, "1")],
      UPSRatedShipment("14", <<"4", "0", ".", "0", "0">>)
          @@ [GuaranteedDelivery |-> GuaranteedDelivery(<<"a", "b", "c">>)],
      UPSRatedShipment("59", <<"5", "0", ".", "0", "0">>)
          @@ [GuaranteedDelivery |-> GuaranteedDelivery(<<"-", "2">>),
              ItemizedCharges |->
                  << [ItemizedCharge("376", <<"4", ".", "0", "0">>)
                         EXCEPT !.CurrencyCode = "JPY"] >>] }

\* The sequences of at most n rated shipments, one per service, in any order.
RatedShipments(n) ==
    UNION { { rated \in [1..k -> ShipmentChoices] :
                \A i, j \in 1..k :
                    rated[i].Service.Code = rated[j].Service.Code => i = j } : k \in 0..n }

\* The requests of the mapping specification: with and without the options.
MapRequests ==
    { ValidRateRequest,
      ValidRateRequest @@ [options |-> [negotiatedRates |-> FALSE]],
      ValidRateRequest @@ [options |-> [negotiatedRates |-> TRUE]],
      ValidRateRequest @@ [options |-> [returnAllServices |-> FALSE]] }

\* The configurations a carrier may be constructed with.
CarrierConfigs ==
    { carrierConfig,
      carrierConfig @@ [useNegotiatedRates |-> TRUE],
      [useNegotiatedRates |-> FALSE] }

\* The mapping of carrier answers: valid requests made one after the other,
\* a token endpoint that answers, and every successful answer of at most
\* MaxShipments shipments.
MapNext ==
    \/ \E request \in MapRequests : \E config \in CarrierConfigs :
          /\ \A c \in DOMAIN calls : calls[c].pc = "done"
          /\ rateOn(config, request)
    \/ \E r \in 1..MaxRequests : refreshToken(r, [ok |-> TRUE, hasData |-> TRUE,
                                                   data |-> TokenBody(3600)])
    \/ \E c \in 1..MaxCalls : LeaderResume(c)
    \/ \E c \in 1..MaxCalls : \E shipments \in RatedShipments(MaxShipments) :
          \E random \in RandomSuffixes :
              postSettles(c, [ok |-> TRUE,
                              data |-> UPSRateResponse("1", <<"Success">>, shipments)],
                          random)

MapSpec == Init /\ [][MapNext]_vars

LiveNext ==
    \/ getToken
    \/ forceRefresh
    \/ clearCache
    \/ \E r \in 1..MaxRequests : \E reply \in LiveReplies : refreshToken(r, reply)
    \/ \E c \in 1..MaxCalls : LeaderResume(c)
    \/ \E c \in 1..MaxCalls : FollowerResume(c)
    \/ \E t \in Instants : Tick(t)

\* Every token request eventually settles (axios enforces its timeout) and
\* every promise continuation eventually runs.
LiveSpec ==
    /\ Init /\ [][LiveNext]_vars
    /\ \A r \in 1..MaxRequests : WF_vars(\E reply \in LiveReplies : refreshToken(r, reply))
    /\ \A c \in 1..MaxCalls : WF_vars(LeaderResume(c))
    /\ \A c \in 1..MaxCalls : WF_vars(FollowerResume(c))

\* ---------------------------------------------------------------------------
\* CarrierRegistry.  A Map keeps one entry per key, in order of insertion;
\* a carrier implementation is an object with a name.
\* ---------------------------------------------------------------------------
CarrierNames == {"UPS", "FEDEX", "USPS", "DHL"}

Carriers == [name : CarrierNames, object : 1..MaxImplementations]

\* Map.prototype.has, get, set and values.
mapHas(map, key) == \E i \in DOMAIN map : map[i].key = key

mapGet(map, key) ==
    IF mapHas(map, key)
    THEN Some(map[CHOOSE i \in DOMAIN map : map[i].key = key].value)
    ELSE None

mapSet(map, key, value) ==
    IF mapHas(map, key)
    THEN [i \in DOMAIN map |-> IF map[i].key = key THEN [key |-> key, value |-> value]
                               ELSE map[i]]
    ELSE Append(map, [key |-> key, value |-> value])

mapValues(map) == [i \in DOMAIN map |-> map[i].value]

\* What a method of the registry returns to its caller.
RegistryReturn(op, args, result) ==
    [call |-> Len(calls) + 1, op |-> op, args |-> args, result |-> result]

AlreadyRegistered(name) ==
    [isError |-> TRUE, name |-> "Error",
     message |-> <<"Carrier ", name, " is already registered">>]

registerOverwriting(carrier) ==
    /\ carriers' = mapSet(carriers, carrier.name, carrier)
    /\ returned' = RegistryReturn("register", carrier, [kind |-> "undefined"])
    /\ UNCHANGED <<now, cachedToken, refreshPromise, requests, calls, cleared, idleClear>>

\* CarrierRegistry.register(carrier)
register(carrier) ==
    /\ IF mapHas(carriers, carrier.name)
       THEN /\ returned' = RegistryReturn("register", carrier,
                                          ErrorResult(AlreadyRegistered(carrier.name)))
            /\ UNCHANGED carriers
       ELSE /\ carriers' = mapSet(carriers, carrier.name, carrier)
            /\ returned' = RegistryReturn("register", carrier, [kind |-> "undefined"])
    /\ UNCHANGED <<now, cachedToken, refreshPromise, requests, calls, cleared, idleClear>>

\* CarrierRegistry.get(name)
get(name) ==
    /\ returned' = RegistryReturn("get", name, [kind |-> "carrier",
                                                carrier |-> mapGet(carriers, name)])
    /\ UNCHANGED <<now, cachedToken, refreshPromise, requests, calls, cleared, idleClear,
                   carriers>>

\* CarrierRegistry.getAll()
getAll ==
    /\ returned' = RegistryReturn("getAll", <<>>, [kind |-> "array",
                                                   items |-> mapValues(carriers)])
    /\ UNCHANGED <<now, cachedToken, refreshPromise, requests, calls, cleared, idleClear,
                   carriers>>

\* CarrierRegistry.has(name)
has(name) ==
    /\ returned' = RegistryReturn("has", name, [kind |-> "boolean",
                                                value |-> mapHas(carriers, name)])
    /\ UNCHANGED <<now, cachedToken, refreshPromise, requests, calls, cleared, idleClear,
                   carriers>>

RegistryNext ==
    \/ \E carrier \in Carriers : register(carrier)
    \/ \E name \in CarrierNames : get(name)
    \/ getAll
    \/ \E name \in CarrierNames : has(name)

RegistrySpec == Init /\ [][RegistryNext]_vars

\* ---------------------------------------------------------------------------
\* Vocabulary of the properties
\* ---------------------------------------------------------------------------
\* The call a step issues, 0 when the step issues none.
Issued == IF Len(calls') = Len(calls) + 1 THEN Len(calls') ELSE 0

\* The operation of the call a step issues.
IssuedOp ==
    IF calls'[Issued].pc = "done" THEN returned'.op ELSE calls'[Issued].op

\* A call returns in this step.
Returns == returned'.call # 0

\* The calls still waiting for request r.
Waiting(r) == { c \in DOMAIN calls : calls[c].pc # "done" /\ calls[c].req = r }

\* A reply that is a 2xx response carrying access_token and expires_in.
WellFormedReply(reply) ==
    /\ reply.ok
    /\ reply.hasData
    /\ Has(reply.data, "access_token")
    /\ Has(reply.data, "expires_in")

IsAuthenticationError(result) ==
    /\ result.kind = "error"
    /\ result.error.name = "AuthenticationError"

\* ---------------------------------------------------------------------------
\* C1  Coalescing.  Take a refresh that started when no other refresh was
\* under way and during which no clearCache() ran.  A getToken() issued on an
\* empty cache with no refresh under way sends exactly one token request; a
\* getToken() issued on an empty cache while such a refresh is under way
\* sends none and awaits its request, the only one there is; and every call
\* that awaited a request returns the one outcome that request settled with.
\* ---------------------------------------------------------------------------
C1_Step ==
    LET n == Issued IN
    /\ (/\ n # 0
        /\ IssuedOp = "getToken"
        /\ cachedToken = NullToken
        /\ \A r \in Refreshing : ~requests[r].clearedWhile /\ ~requests[r].overlapped)
       => /\ Refreshing = {}
                => /\ Len(requests') = Len(requests) + 1
                   /\ calls'[n].req = Len(requests')
          /\ Refreshing # {}
                => /\ requests' = requests
                   /\ Refreshing = {calls'[n].req}
                   /\ InFlight \subseteq Refreshing
    /\ (Returns /\ returned'.req # 0)
       => returned'.result = requests[returned'.req].outcome
    /\ \A r \in DOMAIN requests :
          requests[r].state # "inflight" => requests'[r].outcome = requests[r].outcome

C1_Coalescing == [][C1_Step]_vars

\* Two getToken() calls issued on an empty cache await the one request
\* that was sent, and it has settled with a token.
C1_Witness ==
    /\ Len(requests) = 1
    /\ Len(calls) = 2
    /\ ~requests[1].clearedWhile
    /\ requests[1].state = "resolved"
    /\ calls[1].pc = "leader" /\ calls[1].op = "getToken" /\ calls[1].req = 1
    /\ calls[2].pc = "follower" /\ calls[2].op = "getToken" /\ calls[2].req = 1

\* ---------------------------------------------------------------------------
\* C2  At most one token request is in flight in every reachable state.
\* ---------------------------------------------------------------------------
C2_AtMostOneInFlight == Cardinality(InFlight) <= 1

\* ---------------------------------------------------------------------------
\* C3  Every token a call returns satisfies
\* expiresAt > now + refreshBufferSeconds*1000 at the moment it is returned.
\* ---------------------------------------------------------------------------
C3_NeverInsideBuffer ==
    (returned.call # 0 /\ returned.result.kind = "token")
    => JsGreater(returned.result.token.expiresAt, now + refreshBufferSeconds * 1000)

\* ---------------------------------------------------------------------------
\* C4  getToken() answers from the cache, sending no request, exactly when a
\* token is cached with expiresAt > now + refreshBufferSeconds*1000 (strict);
\* it then returns the cached token.  Otherwise it takes part in a refresh.
\* ---------------------------------------------------------------------------
C4_Step ==
    LET n == Issued
        fresh == /\ cachedToken # NullToken
                 /\ cachedToken.expiresAt # NaN
                 /\ cachedToken.expiresAt > now + refreshBufferSeconds * 1000
    IN  (n # 0 /\ IssuedOp = "getToken")
        => /\ fresh => /\ calls'[n].pc = "done"
                        /\ returned'.call = n
                        /\ returned'.req = 0
                        /\ returned'.result = TokenResult(cachedToken)
                        /\ requests' = requests
                        /\ refreshPromise' = refreshPromise
           /\ ~fresh => /\ calls'[n].pc \in {"leader", "follower"}
                         /\ calls'[n].req \in DOMAIN requests'
                         /\ returned' = NoReturn

C4_CacheHitIffValid == [][C4_Step]_vars

\* A second getToken() right after one that obtained a 3600 s token has been
\* answered with that token and no second request.
C4_Witness ==
    /\ Len(requests) = 1
    /\ returned.call = 2
    /\ returned.op = "getToken"
    /\ returned.req = 0
    /\ returned.result = requests[1].outcome
    /\ returned.result.kind = "token"
    /\ returned.result.token.expiresAt = 3600 * 1000

\* ---------------------------------------------------------------------------
\* C5  Whenever a token request settles with anything but a well-formed 2xx
\* reply, its promise rejects with an AuthenticationError and the cached
\* token is left as it was.
\* ---------------------------------------------------------------------------
C5_Step ==
    \A r \in DOMAIN requests :
        (/\ requests[r].state = "inflight"
         /\ requests'[r].state # "inflight"
         /\ ~WellFormedReply(requests'[r].reply))
        => /\ IsAuthenticationError(requests'[r].outcome)
           /\ cachedToken' = cachedToken

C5_FailedRefreshLeavesCache == [][C5_Step]_vars

\* ---------------------------------------------------------------------------
\* C6  When the token acquisition of a rate() fails, rate() throws that same
\* AuthenticationError, and isRetryableError() of what it throws is false.
\* ---------------------------------------------------------------------------
C6_AuthErrorUnchanged ==
    (/\ returned.call # 0
     /\ returned.op = "rate"
     /\ returned.pc \in {"leader", "follower"})
    => /\ returned.result = requests[returned.req].outcome
       /\ IsAuthenticationError(returned.result)
       /\ ~isRetryableError(returned.result.error)

\* ---------------------------------------------------------------------------
\* C7  forceRefresh() empties the cache and returns the outcome of a token
\* request that is sent after forceRefresh() was called.
\* ---------------------------------------------------------------------------
C7_Step ==
    LET n == Issued IN
    (n # 0 /\ IssuedOp = "forceRefresh")
    => /\ Len(requests') = Len(requests) + 1
       /\ calls'[n].req = Len(requests')

C7_ForceRefreshSendsNewRequest == [][C7_Step]_vars

\* ---------------------------------------------------------------------------
\* C8  No getToken() issued after a clearCache() returns a token object that
\* was cached at that clear; and the first getToken() after a clearCache()
\* that found nothing in flight sends exactly one new token request.
\* ---------------------------------------------------------------------------
C8_Step ==
    LET n == Issued IN
    /\ (idleClear /\ n # 0 /\ IssuedOp = "getToken")
       => /\ calls'[n].pc = "leader"
          /\ Len(requests') = Len(requests) + 1
          /\ calls'[n].req = Len(requests')
    /\ (Returns /\ returned'.op = "getToken" /\ returned'.result.kind = "token")
       => returned'.result.token.object \notin returned'.after

C8_ClearedTokenNotReused == [][C8_Step]_vars

\* A still valid 3600 s token was cleared with nothing in flight, and the
\* getToken() that followed leads a second token request.
C8_Witness ==
    /\ now = 0
    /\ cleared = {1}
    /\ Len(requests) = 2
    /\ requests[1].outcome.kind = "token"
    /\ requests[1].outcome.token.expiresAt = 3600 * 1000
    /\ ~requests[2].clearedWhile
    /\ Len(calls) = 2
    /\ calls[2].pc = "leader" /\ calls[2].op = "getToken" /\ calls[2].req = 2
    /\ calls[2].after = {1}

\* ---------------------------------------------------------------------------
\* C9  Liveness.  Every invocation that waits for a refresh eventually
\* returns, and a set in-progress marker is eventually cleared.
\* ---------------------------------------------------------------------------
C9_EveryCallReturns ==
    /\ \A c \in 1..MaxCalls :
          (c \in DOMAIN calls /\ calls[c].pc # "done") ~> (c \in DOMAIN calls /\ calls[c].pc = "done")
    /\ (refreshPromise # 0) ~> (refreshPromise = 0)

\* A follower of a timed-out refresh that clearCache() interrupted is still
\* waiting while the leader has returned.
C9_Witness ==
    /\ Len(calls) = 2
    /\ calls[1].pc = "done"
    /\ calls[2].pc = "follower"
    /\ requests[calls[2].req].state = "rejected"
    /\ requests[calls[2].req].clearedWhile

\* ---------------------------------------------------------------------------
\* C10  Once the latest refresh has failed and every call that awaited it
\* has returned, the cache is idle: the marker is null and no valid token is
\* cached, so the next getToken() starts a new token request.
\* ---------------------------------------------------------------------------
C10_IdleAfterFailure ==
    \A r \in DOMAIN requests :
        (r = Len(requests) /\ requests[r].state = "rejected" /\ Waiting(r) = {})
        => /\ refreshPromise = 0
           /\ ~isTokenValid(cachedToken, now)

\* ---------------------------------------------------------------------------
\* C11  The carrier call of a rate() invocation is sent only once the token
\* acquisition of that invocation has completed with a token, which is the
\* bearer of the call; an invocation whose token acquisition failed ends
\* without a carrier call, and an invocation that has ended sends nothing.
\* ---------------------------------------------------------------------------
CarrierCallSent(c) ==
    /\ c \in DOMAIN calls'
    /\ calls'[c].pc = "carrier"
    /\ c \in DOMAIN calls => calls[c].pc # "carrier"

C11_Step ==
    /\ \A c \in DOMAIN calls' :
          CarrierCallSent(c) =>
              IF c \in DOMAIN calls
              THEN /\ calls[c].pc \in {"leader", "follower"}
                   /\ requests[calls[c].req].outcome.kind = "token"
                   /\ calls'[c].bearer = requests[calls[c].req].outcome.token.accessToken
              ELSE /\ cachedToken # NullToken
                   /\ calls'[c].bearer = cachedToken.accessToken
                   /\ requests' = requests
    /\ \A c \in DOMAIN calls :
          /\ (/\ calls[c].pc \in {"leader", "follower"}
              /\ calls[c].op = "rate"
              /\ calls'[c] # calls[c]
              /\ requests[calls[c].req].outcome.kind = "error")
             => calls'[c].pc = "done" /\ returned'.result.kind = "error"
          /\ calls[c].pc = "done" => calls'[c].pc = "done"

C11_TokenBeforeCarrierCall == [][C11_Step]_vars

\* A rate() invocation that led a refresh has its carrier call in flight,
\* and another one has ended on a failed refresh.
C11_Witness ==
    /\ Len(calls) = 2
    /\ Len(requests) = 2
    /\ calls[1].pc = "done"
    /\ requests[1].state = "rejected"
    /\ calls[2].pc = "carrier"
    /\ calls[2].req = 2
    /\ requests[2].state = "resolved"

\* The carrier call of the call that returned last failed in transport.
TransportFailed ==
    /\ returned.call # 0
    /\ Has(returned, "reply")
    /\ ~returned.reply.ok

\* A text made of decimal digits only.
IsNumericText(text) ==
    /\ text # <<>>
    /\ \A i \in DOMAIN text : text[i] \in {"0", "1", "2", "3", "4", "5", "6", "7", "8", "9"}

IsTimeoutFailure(reply) ==
    /\ ~reply.ok
    /\ httpIsAxiosError(reply.error)
    /\ reply.error.code \in {"ECONNABORTED", "ETIMEDOUT"}

\* ---------------------------------------------------------------------------
\* C13  When the token request or the carrier call made for a rate() times
\* out, rate() throws a NetworkError whose isTimeout is true.
\* ---------------------------------------------------------------------------
C13_TimeoutReachesCaller ==
    (/\ returned.call # 0
     /\ returned.op = "rate"
     /\ \/ /\ returned.pc \in {"leader", "follower"}
           /\ IsTimeoutFailure(requests[returned.req].reply)
        \/ /\ returned.pc = "carrier"
           /\ IsTimeoutFailure(returned.reply))
    => /\ returned.result.kind = "error"
       /\ returned.result.error.name = "NetworkError"
       /\ returned.result.error.isTimeout

\* ---------------------------------------------------------------------------
\* C14  isRetryableError(e) is true exactly when e is a NetworkError, a
\* RateLimitError, or a CarrierApiError whose statusCode is defined and lies
\* in [500, 600); it is false for AuthenticationError, ValidationError,
\* NotImplementedError, a CarrierApiError without statusCode or with one
\* outside [500, 600), and every other value.  Checked on every error an
\* operation of the carrier throws.
\* ---------------------------------------------------------------------------
C14_Retryable ==
    (returned.call # 0 /\ returned.result.kind = "error") =>
        LET e == returned.result.error
            serverError == /\ e.name = "CarrierApiError"
                           /\ e.statusCode # Undefined
                           /\ e.statusCode \in 500..599
        IN  /\ isRetryableError(e)
               <=> (e.name = "NetworkError" \/ e.name = "RateLimitError" \/ serverError)
            /\ e.name \in {"AuthenticationError", "ValidationError",
                           "NotImplementedError", "TypeError"}
               => ~isRetryableError(e)
            /\ (e.name = "CarrierApiError" /\ ~serverError) => ~isRetryableError(e)

\* A carrier answer of status 500 came back as a retryable CarrierApiError.
C14_Witness ==
    /\ returned.call # 0
    /\ returned.result.kind = "error"
    /\ returned.result.error.name = "CarrierApiError"
    /\ returned.result.error.statusCode = 500
    /\ isRetryableError(returned.result.error)

\* The kinds of the error taxonomy.
TaxonomyKinds ==
    {"AuthenticationError", "RateLimitError", "ValidationError", "NetworkError",
     "CarrierApiError", "NotImplementedError", "ConfigurationError"}

\* ---------------------------------------------------------------------------
\* C15  Every rate() invocation ends in a RateResult or in an error of
\* exactly one kind of the taxonomy; nothing untyped escapes, a 2xx body
\* without the expected structure included.
\* ---------------------------------------------------------------------------
C15_TypedOutcome ==
    (returned.call # 0 /\ returned.op = "rate")
    => \/ returned.result.kind = "rateResponse"
       \/ /\ returned.result.kind = "error"
          /\ returned.result.error.name \in TaxonomyKinds

\* The carrier answered 2xx with a body that carries an embedded status.
EmbeddedStatus ==
    /\ returned.call # 0
    /\ Has(returned, "reply")
    /\ returned.reply.ok
    /\ Has(returned.reply.data, "RateResponse")
    /\ Has(returned.reply.data.RateResponse, "Response")
    /\ Has(returned.reply.data.RateResponse.Response, "ResponseStatus")
    /\ Has(returned.reply.data.RateResponse.Response.ResponseStatus, "Code")
    /\ Has(returned.reply.data.RateResponse.Response.ResponseStatus, "Description")

\* The fragments of part occur in whole, in order and next to each other.
Contains(whole, part) ==
    \E i \in 1..(Len(whole) + 1) :
        /\ i + Len(part) - 1 <= Len(whole)
        /\ SubSeq(whole, i, i + Len(part) - 1) = part

\* ---------------------------------------------------------------------------
\* C16  A 2xx carrier answer whose embedded ResponseStatus.Code is not '1'
\* makes rate() throw a CarrierApiError whose message contains the embedded
\* description; no RateResult is produced from it.
\* ---------------------------------------------------------------------------
C16_EmbeddedFailure ==
    (/\ EmbeddedStatus
     /\ returned.reply.data.RateResponse.Response.ResponseStatus.Code # "1")
    => /\ returned.result.kind = "error"
       /\ returned.result.error.name = "CarrierApiError"
       /\ Contains(returned.result.error.message,
                   returned.reply.data.RateResponse.Response.ResponseStatus.Description)

\* The answer with Code '0' and description 'Failure' came back as the error.
C16_Witness ==
    /\ EmbeddedStatus
    /\ returned.reply.data.RateResponse.Response.ResponseStatus.Code = "0"
    /\ returned.result.kind = "error"
    /\ returned.result.error.message = <<"UPS API error: ", "Failure">>

\* rate() returned a RateResult made from a carrier answer.
Mapped ==
    /\ returned.call # 0
    /\ Has(returned, "reply")
    /\ returned.reply.ok
    /\ returned.result.kind = "rateResponse"

\* a = b on numbers; false when either is NaN.
NumEqual(a, b) == ~a.nan /\ ~b.nan /\ a.num * b.den = b.num * a.den

\* ---------------------------------------------------------------------------
\* C17  The quotes of a RateResult are a permutation of the records mapped
\* from the rated shipments of the answer, in ascending order of
\* totalPrice.amount, records of equal amount keeping the carrier's order.
\* ---------------------------------------------------------------------------
C17_SortedQuotes ==
    Mapped =>
        LET rated  == returned.reply.data.RateResponse.RatedShipment
            mapped == [i \in 1..Len(rated) |-> fromUPSRatedShipment(rated[i])]
            quotes == returned.result.response.quotes
            n      == Len(rated)
        IN  /\ Len(quotes) = n
            /\ \E p \in [1..n -> 1..n] :
                  /\ \A i, j \in 1..n : i # j => p[i] # p[j]
                  /\ \A i \in 1..n : quotes[i] = mapped[p[i]]
                  /\ \A i, j \in 1..n :
                        (i < j /\ NumEqual(quotes[i].totalPrice.amount,
                                           quotes[j].totalPrice.amount))
                        => p[i] < p[j]
            /\ \A i, j \in 1..n :
                  i < j => ~NumGreater(quotes[i].totalPrice.amount,
                                       quotes[j].totalPrice.amount)

\* The quotes of the RateResult and the rated shipments they were made from.
Quotes == returned.result.response.quotes

Rated == returned.reply.data.RateResponse.RatedShipment

\* Quote q was made from rated shipment s: the service codes of the rated
\* shipments of one answer tell them apart.
MadeFrom(q, s) == q.serviceCode = s.Service.Code

\* ---------------------------------------------------------------------------
\* C18  The totalPrice of a quote is the negotiated total charge of its rated
\* shipment when the answer carries one and the standard total otherwise,
\* whatever the request asked for; its basePrice is the base service charge
\* when present and the transportation charge otherwise.
\* ---------------------------------------------------------------------------
C18_PriceSelection ==
    Mapped =>
        /\ Len(Quotes) = Len(Rated)
        /\ \A j \in DOMAIN Rated : \E i \in DOMAIN Quotes : MadeFrom(Quotes[i], Rated[j])
        /\ \A i \in DOMAIN Quotes : \A j \in DOMAIN Rated :
              MadeFrom(Quotes[i], Rated[j]) =>
                  /\ Quotes[i].totalPrice.amount =
                         parseFloat(IF Has(Rated[j], "NegotiatedRateCharges")
                                    THEN Rated[j].NegotiatedRateCharges.TotalCharge.MonetaryValue
                                    ELSE Rated[j].TotalCharges.MonetaryValue)
                  /\ Quotes[i].basePrice.amount =
                         parseFloat(IF Has(Rated[j], "BaseServiceCharge")
                                    THEN Rated[j].BaseServiceCharge.MonetaryValue
                                    ELSE Rated[j].TransportationCharges.MonetaryValue)

\* A request that asked for no negotiated rates got the negotiated total 8.50
\* and the base service charge 7.00 of the shipment that carries them, next to
\* a quote priced from the standard total and the transportation charge.
C18_Witness ==
    /\ Mapped
    /\ Has(returned.result.response.request, "options")
    /\ ~returned.result.response.request.options.negotiatedRates
    /\ \E i \in DOMAIN Quotes :
          /\ Quotes[i].serviceCode = "01"
          /\ NumEqual(Quotes[i].totalPrice.amount, Num(850, 100))
          /\ NumEqual(Quotes[i].basePrice.amount, Num(700, 100))
    /\ \E i \in DOMAIN Quotes :
          /\ Quotes[i].serviceCode = "03"
          /\ NumEqual(Quotes[i].totalPrice.amount, Num(2000, 100))
          /\ NumEqual(Quotes[i].basePrice.amount, Num(1800, 100))

\* ---------------------------------------------------------------------------
\* C19  The surcharges of a quote are the itemized charges of its rated
\* shipment whose value parses to a number above zero, in the carrier's
\* order; charges of zero, negative or unparseable value are left out; a
\* surcharge without description has its code as description.
\* ---------------------------------------------------------------------------
C19_Surcharges ==
    Mapped =>
        \A i \in DOMAIN Quotes : \A j \in DOMAIN Rated :
            MadeFrom(Quotes[i], Rated[j]) =>
                LET charges == IF Has(Rated[j], "ItemizedCharges")
                               THEN Rated[j].ItemizedCharges ELSE <<>>
                    kept    == { k \in DOMAIN charges :
                                    NumGreater(parseFloat(charges[k].MonetaryValue), Integer(0)) }
                    listed  == Quotes[i].surcharges
                IN  /\ Len(listed) = Cardinality(kept)
                    /\ \E at \in [DOMAIN listed -> DOMAIN charges] :
                          /\ \A a, b \in DOMAIN listed : a < b => at[a] < at[b]
                          /\ { at[a] : a \in DOMAIN listed } = kept
                          /\ \A a \in DOMAIN listed :
                                /\ listed[a].code = charges[at[a]].Code
                                /\ listed[a].amount.amount
                                       = parseFloat(charges[at[a]].MonetaryValue)
                                /\ listed[a].description
                                       = IF Has(charges[at[a]], "Description")
                                         THEN charges[at[a]].Description
                                         ELSE <<charges[at[a]].Code>>

\* Of the charges 2.49, 0.00, 1.00 the first and the third were listed, the
\* third described by its code; of -1.50, 'abc', 3.10 only the last.
C19_Witness ==
    /\ Mapped
    /\ \E i \in DOMAIN Quotes :
          /\ Quotes[i].serviceCode = "03"
          /\ Len(Quotes[i].surcharges) = 2
          /\ Quotes[i].surcharges[1].code = "375"
          /\ Quotes[i].surcharges[2].code = "110"
          /\ Quotes[i].surcharges[2].description = <<"110">>
    /\ \E i \in DOMAIN Quotes :
          /\ Quotes[i].serviceCode = "01"
          /\ Len(Quotes[i].surcharges) = 1
          /\ Quotes[i].surcharges[1].code = "402"

\* ---------------------------------------------------------------------------
\* C20  rate() with a request that fails structural validation throws a
\* ValidationError that carries at least one field error, before any token
\* acquisition and any carrier call: the token cache is unchanged and no
\* network request is sent.
\* ---------------------------------------------------------------------------
C20_Step ==
    \A request \in InvalidRateRequests :
        rate(request) =>
            /\ returned'.call = Len(calls')
            /\ returned'.result.kind = "error"
            /\ returned'.result.error.name = "ValidationError"
            /\ returned'.result.error.fieldErrors # {}
            /\ cachedToken' = cachedToken
            /\ refreshPromise' = refreshPromise
            /\ requests' = requests
            /\ calls'[Len(calls')].pc = "done"

C20_ValidationFirst == [][C20_Step]_vars

\* The days text of the time-in-transit summary of a rated shipment is there.
HasSummaryDays(rated) ==
    /\ Has(rated, "TimeInTransit")
    /\ Has(rated.TimeInTransit, "ServiceSummary")
    /\ Has(rated.TimeInTransit.ServiceSummary, "EstimatedArrival")
    /\ Has(rated.TimeInTransit.ServiceSummary.EstimatedArrival, "BusinessDaysInTransit")

SummaryDays(rated) == rated.TimeInTransit.ServiceSummary.EstimatedArrival.BusinessDaysInTransit

\* The number a days text stands for, absent when it does not parse.
DaysOf(text) == IF parseInt(text).nan THEN None ELSE Some(parseInt(text))

\* What the claim says of the delivery fields other than transitDays.
DeliveryFields(q, rated) ==
    /\ q.guaranteed <=> Has(rated, "GuaranteedDelivery")
    /\ \/ q.estimatedDeliveryDate = None
       \/ /\ Has(rated, "TimeInTransit")
          /\ q.estimatedDeliveryDate
                 = Some(rated.TimeInTransit.ServiceSummary.EstimatedArrival.Arrival.Date)
    /\ q.saturdayDelivery
           <=> /\ Has(rated, "TimeInTransit")
               /\ rated.TimeInTransit.ServiceSummary.SaturdayDelivery \in {"Y", "1"}

\* ---------------------------------------------------------------------------
\* C21 (as stated)  transitDays is read from the time-in-transit summary when
\* its days field is present and from the guaranteed-delivery block only
\* otherwise; a text that does not parse gives an absent transitDays;
\* guaranteed is true exactly when the guaranteed-delivery block is present;
\* estimatedDeliveryDate comes from the summary only; saturdayDelivery is
\* true exactly when the summary flag is 'Y' or '1'.
\* ---------------------------------------------------------------------------
C21_TransitAsStated ==
    Mapped =>
        \A i \in DOMAIN Quotes : \A j \in DOMAIN Rated :
            MadeFrom(Quotes[i], Rated[j]) =>
                /\ Quotes[i].transitDays =
                       IF HasSummaryDays(Rated[j]) THEN DaysOf(SummaryDays(Rated[j]))
                       ELSE IF Has(Rated[j], "GuaranteedDelivery")
                            THEN DaysOf(Rated[j].GuaranteedDelivery.BusinessDaysInTransit)
                            ELSE None
                /\ DeliveryFields(Quotes[i], Rated[j])

\* ---------------------------------------------------------------------------
\* C21 (amended)  As stated, with the summary's days field counting as
\* present only when it is not the empty text: an empty one leaves the days
\* of the guaranteed-delivery block in place.
\* ---------------------------------------------------------------------------
C21_Transit ==
    Mapped =>
        \A i \in DOMAIN Quotes : \A j \in DOMAIN Rated :
            MadeFrom(Quotes[i], Rated[j]) =>
                /\ Quotes[i].transitDays =
                       IF HasSummaryDays(Rated[j]) /\ SummaryDays(Rated[j]) # <<>>
                       THEN DaysOf(SummaryDays(Rated[j]))
                       ELSE IF Has(Rated[j], "GuaranteedDelivery")
                            THEN DaysOf(Rated[j].GuaranteedDelivery.BusinessDaysInTransit)
                            ELSE None
                /\ DeliveryFields(Quotes[i], Rated[j])

\* Summary days 2 won over guaranteed days 5; summary days 'abc' gave no
\* transitDays although 3 days were guaranteed; an empty summary text left the
\* 4 guaranteed days.
C21_Witness ==
    /\ Mapped
    /\ \E i \in DOMAIN Quotes :
          /\ Quotes[i].serviceCode = "01"
          /\ Quotes[i].transitDays = Some(Integer(2))
          /\ Quotes[i].guaranteed
          /\ Quotes[i].saturdayDelivery
          /\ Quotes[i].estimatedDeliveryDate # None
    /\ \E i \in DOMAIN Quotes :
          /\ Quotes[i].serviceCode = "02"
          /\ Quotes[i].transitDays = None
          /\ Quotes[i].guaranteed
          /\ ~Quotes[i].saturdayDelivery
    /\ \E i \in DOMAIN Quotes :
          /\ Quotes[i].serviceCode = "12"
          /\ Quotes[i].transitDays = Some(Integer(4))
          /\ Quotes[i].estimatedDeliveryDate = None

\* ---------------------------------------------------------------------------
\* C22  The transitDays of every quote is absent or a non-negative integer,
\* whatever days text the carrier sent, a text that parses to a negative
\* number included.
\* ---------------------------------------------------------------------------
C22_TransitDaysNonNegative ==
    Mapped =>
        \A i \in DOMAIN Quotes :
            \/ Quotes[i].transitDays = None
            \/ /\ ~Quotes[i].transitDays.value.nan
               /\ Quotes[i].transitDays.value.den = 1
               /\ Quotes[i].transitDays.value.num >= 0

\* The four supported currency codes, and the one reported for a code.
SupportedCurrencies == {"USD", "EUR", "GBP", "CAD"}

Reported(code) == IF code \in SupportedCurrencies THEN code ELSE "USD"

\* The charge, and the rated shipment, with every unsupported currency code
\* replaced by USD.
ChargeInSupported(charge) == [charge EXCEPT !.CurrencyCode = Reported(charge.CurrencyCode)]

RatedInSupported(rated) ==
    [f \in DOMAIN rated |->
        IF f \in {"TotalCharges", "TransportationCharges", "BaseServiceCharge"}
            THEN ChargeInSupported(rated[f])
        ELSE IF f = "NegotiatedRateCharges"
            THEN [TotalCharge |-> ChargeInSupported(rated[f].TotalCharge)]
        ELSE IF f = "ItemizedCharges"
            THEN [k \in DOMAIN rated[f] |-> ChargeInSupported(rated[f][k])]
        ELSE rated[f]]

\* ---------------------------------------------------------------------------
\* C23  A currency code outside USD, EUR, GBP, CAD on a charge of the answer
\* does not make the mapping fail: the amount is reported in USD, every quote
\* is what it would be had the carrier sent USD in its place, and every
\* currency of the RateResult is one of the four.
\* ---------------------------------------------------------------------------
C23_UnknownCurrency ==
    (/\ returned.call # 0
     /\ Has(returned, "reply")
     /\ returned.reply.ok)
    => /\ returned.result.kind = "rateResponse"
       /\ Len(Quotes) = Len(Rated)
       /\ \A i \in DOMAIN Quotes :
             /\ Quotes[i].totalPrice.currency \in SupportedCurrencies
             /\ Quotes[i].basePrice.currency \in SupportedCurrencies
             /\ \A k \in DOMAIN Quotes[i].surcharges :
                   Quotes[i].surcharges[k].amount.currency \in SupportedCurrencies
             /\ \A j \in DOMAIN Rated :
                   MadeFrom(Quotes[i], Rated[j]) =>
                       /\ Quotes[i] = fromUPSRatedShipment(RatedInSupported(Rated[j]))
                       /\ Quotes[i].totalPrice.currency
                              = Reported(IF Has(Rated[j], "NegotiatedRateCharges")
                                         THEN Rated[j].NegotiatedRateCharges.TotalCharge.CurrencyCode
                                         ELSE Rated[j].TotalCharges.CurrencyCode)

\* A total in JPY came back in USD next to its base price in EUR, a surcharge
\* in JPY came back in USD, and a third quote was mapped beside them.
C23_Witness ==
    /\ Mapped
    /\ \E i \in DOMAIN Quotes :
          /\ Quotes[i].serviceCode = "02"
          /\ Quotes[i].totalPrice.currency = "USD"
          /\ Quotes[i].basePrice.currency = "EUR"
    /\ \E i \in DOMAIN Quotes :
          /\ Quotes[i].serviceCode = "59"
          /\ Len(Quotes[i].surcharges) = 1
          /\ Quotes[i].surcharges[1].amount.currency = "USD"
    /\ \E i \in DOMAIN Quotes : Quotes[i].serviceCode = "03"

\* The rate() invocations whose carrier payload is built and not yet answered.
PendingRates == { c \in DOMAIN calls : calls[c].pc # "done" /\ calls[c].op = "rate" }

\* ---------------------------------------------------------------------------
\* C24  The payload of a rate() asks for negotiated rates exactly when the
\* effective negotiatedRates is true, the effective value being the request's
\* whenever the request gives one (an explicit false included) and the
\* configuration's useNegotiatedRates only otherwise; returnAllServices is
\* true unless the request says otherwise, and then all services are asked
\* for ('Shop').
\* ---------------------------------------------------------------------------
C24_OptionsMerged ==
    \A c \in PendingRates :
        LET request  == calls[c].args.request
            config   == calls[c].args.config
            shipment == calls[c].args.upsRequest.RateRequest.Shipment
            given    == Has(request, "options") /\ Has(request.options, "negotiatedRates")
            negotiatedRates ==
                IF given THEN request.options.negotiatedRates
                ELSE Has(config, "useNegotiatedRates") /\ config.useNegotiatedRates
            returnAllServices ==
                IF Has(request, "options") /\ Has(request.options, "returnAllServices")
                THEN request.options.returnAllServices ELSE TRUE
        IN  /\ negotiatedRates
               <=> /\ Has(shipment, "ShipmentRatingOptions")
                   /\ shipment.ShipmentRatingOptions = [NegotiatedRatesIndicator |-> "Y"]
            /\ returnAllServices
               <=> calls[c].args.upsRequest.RateRequest.Request.RequestOption = "Shop"

\* A request with an explicit negotiatedRates = false on a carrier configured
\* to use negotiated rates: the payload does not ask for them.
C24_Witness ==
    \E c \in PendingRates :
        /\ Has(calls[c].args.request, "options")
        /\ Has(calls[c].args.request.options, "negotiatedRates")
        /\ ~calls[c].args.request.options.negotiatedRates
        /\ Has(calls[c].args.config, "useNegotiatedRates")
        /\ calls[c].args.config.useNegotiatedRates
        /\ ~Has(calls[c].args.upsRequest.RateRequest.Shipment, "ShipmentRatingOptions")

\* ---------------------------------------------------------------------------
\* C25  RefreshState.  In every reachable state the in-progress marker is
\* null only when no token request is in flight, and when set it refers to a
\* refresh that is still under way; so no completion of one refresh clears
\* the marker while another request is in flight.
\* ---------------------------------------------------------------------------
C25_RefreshState ==
    /\ refreshPromise = 0 => InFlight = {}
    /\ refreshPromise # 0 => refreshPromise \in Refreshing

\* ---------------------------------------------------------------------------
\* C26  A token is written to the cache only by the completion of the
\* refresh the in-progress marker refers to at that moment.
\* ---------------------------------------------------------------------------
C26_Step ==
    (cachedToken' # cachedToken /\ cachedToken' # NullToken)
    => /\ refreshPromise # 0
       /\ cachedToken'.object = refreshPromise

C26_WrittenByMarkedRefresh == [][C26_Step]_vars

\* The carrier call of invocation c ends in this step with an error.
CarrierCallFails(c) ==
    /\ calls[c].pc = "carrier"
    /\ calls'[c].pc = "done"
    /\ returned'.call = c
    /\ returned'.result.kind = "error"

\* ---------------------------------------------------------------------------
\* C27  A rate() invocation awaits at most one token request and sends at
\* most one carrier call: from its token acquisition it moves on to its
\* carrier call or ends, from its carrier call it only ends.  The step in
\* which its carrier call fails leaves the cached token, the in-progress
\* marker and the token requests as they were and issues no call, so a
\* rate() that follows while the token is valid sends it as its bearer
\* without a token request.
\* ---------------------------------------------------------------------------
C27_Step ==
    /\ \A c \in DOMAIN calls :
          /\ (calls[c].pc \in {"leader", "follower"} /\ calls[c].op = "rate")
             => \/ calls'[c] = calls[c]
                \/ calls'[c].pc = "done"
                \/ calls'[c].pc = "carrier" /\ calls'[c].req = calls[c].req
          /\ calls[c].pc = "carrier"
             => calls'[c] = calls[c] \/ calls'[c].pc = "done"
          /\ calls[c].pc = "done" => calls'[c].pc = "done"
          /\ CarrierCallFails(c)
             => /\ cachedToken' = cachedToken
                /\ refreshPromise' = refreshPromise
                /\ requests' = requests
                /\ Len(calls') = Len(calls)
                /\ \A d \in DOMAIN calls : d # c => calls'[d] = calls[d]
    /\ (/\ Issued # 0
        /\ calls'[Issued].pc # "done"
        /\ calls'[Issued].op = "rate"
        /\ isTokenValid(cachedToken, now))
       => /\ calls'[Issued].pc = "carrier"
          /\ calls'[Issued].bearer = cachedToken.accessToken
          /\ requests' = requests

C27_NoRetryNoRefresh == [][C27_Step]_vars

\* The carrier answered 401 to the rate() that led the refresh of the cached
\* token: rate() has ended with an AuthenticationError, and the token is
\* still cached and valid.
C27_Witness ==
    /\ returned.call # 0
    /\ returned.op = "rate"
    /\ returned.pc = "carrier"
    /\ Has(returned, "reply")
    /\ ~returned.reply.ok
    /\ httpIsAxiosError(returned.reply.error)
    /\ returned.reply.error.hasResponse
    /\ returned.reply.error.status = 401
    /\ returned.result.error.name = "AuthenticationError"
    /\ returned.req # 0
    /\ cachedToken # NullToken
    /\ cachedToken.object = returned.req
    /\ isTokenValid(cachedToken, now)
    /\ refreshPromise = 0

\* ---------------------------------------------------------------------------
\* C28  When the token request a forceRefresh() sent has failed, that
\* forceRefresh() fails with an AuthenticationError and leaves the cache
\* empty and the marker null, so the next getToken() sends a token request.
\* ---------------------------------------------------------------------------
C28_Step ==
    (/\ Returns
     /\ returned'.op = "forceRefresh"
     /\ returned'.pc = "leader"
     /\ returned'.result.kind = "error")
    => /\ IsAuthenticationError(returned'.result)
       /\ cachedToken' = NullToken
       /\ refreshPromise' = 0

C28_FailedForceRefreshLeavesEmpty == [][C28_Step]_vars

\* ---------------------------------------------------------------------------
\* C29  Liveness.  Sent through the client whose interceptor injects bearer
\* tokens, a token request never waits for getToken(): it carries its own
\* Authorization header, is sent, and settles, and the getToken() that leads
\* it returns.
\* ---------------------------------------------------------------------------
C29_TokenRequestNeverReenters ==
    /\ [](\A r \in DOMAIN requests : requests[r].state # "awaitsItself")
    /\ \A r \in 1..MaxRequests :
          (r \in DOMAIN requests) ~> (r \in DOMAIN requests /\ Settled(r))
    /\ \A c \in 1..MaxCalls :
          (c \in DOMAIN calls /\ calls[c].pc = "leader")
          ~> (c \in DOMAIN calls /\ calls[c].pc = "done")

\* The token request of a getToken() has passed the interceptor with its
\* Basic credentials, has been answered, and the getToken() has returned its
\* token.
C29_Witness ==
    /\ Has(tokenRequestHeaders, "Authorization")
    /\ returned.call # 0
    /\ returned.op = "getToken"
    /\ returned.pc = "leader"
    /\ returned.result.kind = "token"
    /\ requests[returned.req].state = "resolved"

\* The entries the registry holds under a name.
Registered(map, name) == { i \in DOMAIN map : map[i].key = name }

\* A method of the registry returns in this step.
RegistryReturns(op) == returned'.call # 0 /\ Has(returned', "op") /\ returned'.op = op

\* ---------------------------------------------------------------------------
\* C30  The registry holds at most one implementation per name, each under
\* its own name, and never replaces one.  register() of a carrier whose name
\* is registered fails with an error and leaves the registry as it was;
\* otherwise it adds the carrier.  get(name) returns the implementation
\* registered under the name, undefined when there is none; has(name) is
\* true exactly when get(name) is defined; getAll() lists every registered
\* implementation once.
\* ---------------------------------------------------------------------------
C30_Step ==
    /\ \A name \in CarrierNames :
          /\ Cardinality(Registered(carriers', name)) <= 1
          /\ \A i \in Registered(carriers, name) :
                i \in Registered(carriers', name) /\ carriers'[i] = carriers[i]
    /\ \A i \in DOMAIN carriers' : carriers'[i].value.name = carriers'[i].key
    /\ RegistryReturns("register")
       => IF Registered(carriers, returned'.args.name) # {}
          THEN /\ returned'.result.kind = "error"
               /\ carriers' = carriers
          ELSE /\ returned'.result.kind = "undefined"
               /\ carriers' = Append(carriers, [key   |-> returned'.args.name,
                                                value |-> returned'.args])
    /\ RegistryReturns("get")
       => LET found == Registered(carriers, returned'.args)
          IN  /\ carriers' = carriers
              /\ returned'.result.carrier.undefined <=> found = {}
              /\ \A i \in found : returned'.result.carrier.value = carriers[i].value
    /\ RegistryReturns("has")
       => /\ carriers' = carriers
          /\ returned'.result.value <=> ~mapGet(carriers, returned'.args).undefined
    /\ RegistryReturns("getAll")
       => LET items == returned'.result.items
          IN  /\ carriers' = carriers
              /\ Len(items) = Len(carriers)
              /\ \A i \in DOMAIN carriers :
                    Cardinality({ j \in DOMAIN items : items[j] = carriers[i].value }) = 1

C30_OnePerName == [][C30_Step]_vars

\* A second implementation of a registered name was refused: the registry
\* holds two carriers, the first implementation of that name among them.
C30_Witness ==
    /\ returned.call # 0
    /\ Has(returned, "op")
    /\ returned.op = "register"
    /\ returned.result.kind = "error"
    /\ Len(carriers) = 2
    /\ \E i \in DOMAIN carriers :
          /\ carriers[i].key = returned.args.name
          /\ carriers[i].value # returned.args

====
